---------------------------- MODULE Spec2Model ----------------------------
(***************************************************************************)
(* A model of the PropsParlor dashboard scripts: the player scoring        *)
(* (scorePlayer / buildProp), the trend bars (fillTrend / renderProps)     *)
(* and the page state (rostersData, scheduleData, playerStats, lastProps,  *)
(* currentFilter) with its handlers.                                       *)
(*                                                                         *)
(* The repository holds three versions of the dashboard script:            *)
(*   "A"  src/unnamed/part_001 lines 1-309   (confidence field, fillTrend) *)
(*   "B"  src/unnamed/part_001 lines 311-556 (scorePlayer, rewritten)      *)
(*   "C"  src/unnamed/part_002               (scorePlayer, first version)  *)
(* A page runs one of them; the variable `variant` says which.             *)
(***************************************************************************)
EXTENDS Integers, Sequences, FiniteSets, TLC

VARIABLES
    variant,        \* which script the page runs: "A", "B" or "C"
    rostersData,    \* let rostersData: team -> list of player names
    scheduleData,   \* let scheduleData: date -> list of games
    playerStats,    \* let playerStats: player name -> stats object
    lastProps,      \* let lastProps: the props built by the last selection
    currentFilter,  \* let currentFilter: "all", "green", "yellow" or "red"
    currentView,    \* let currentView (variant A): "expanded" or "compact"
    panel,          \* what the element propsOutput shows
    loads,          \* the loadData calls so far: pending with the number of
                    \* fetches resolved, done or failed
    built,          \* per player name: the first and the latest prop built
                    \* from the present playerStats, and whether built again
    app,            \* the state of app.js: the flags and caches of the view
                    \* under study, what its list shows, its fetches so far
    pc,             \* position of a single call: "call" or "done"
    arg,            \* the value handed to scorePlayer directly
    out             \* what the call returned

pageVars ==
    <<rostersData, scheduleData, lastProps, currentFilter, currentView, panel,
      loads, built, app>>
callVars == <<pc, arg, out>>
vars == <<variant, playerStats, pageVars, callVars>>

---------------------------------------------------------------------------
(* JavaScript values.  A value is [t, v, s]: t its type, v the number when *)
(* t = "number", s the text when t = "string".  An object value carries    *)
(* its own properties as further fields.                                   *)

JsUndefined == [t |-> "undefined", v |-> 0, s |-> ""]
JsNull == [t |-> "null", v |-> 0, s |-> ""]
JsNum(n) == [t |-> "number", v |-> n, s |-> ""]
JsStr(x) == [t |-> "string", v |-> 0, s |-> x]

\* ToBoolean: undefined, null, 0 and "" are falsy; every object is truthy.
Truthy(x) ==
    \/ x.t = "number" /\ x.v # 0
    \/ x.t = "string" /\ x.s # ""
    \/ x.t = "object"

\* ToNumber is NaN for undefined (every comparison with NaN is false) and 0 for null.
HasNumber(x) == x.t \in {"number", "null"}
ToNumber(x) == IF x.t = "number" THEN x.v ELSE 0

JsGt(x, n) == HasNumber(x) /\ ToNumber(x) > n
JsLe(x, n) == HasNumber(x) /\ ToNumber(x) <= n
JsGe(x, n) == HasNumber(x) /\ ToNumber(x) >= n
\* x === 0
JsStrictEq(x, n) == x.t = "number" /\ x.v = n
\* x ?? d
JsCoalesce(x, d) == IF x.t \in {"undefined", "null"} THEN d ELSE x

---------------------------------------------------------------------------
(* IEEE-754 doubles, as far as the score needs them.  A double in (-8, 8)  *)
(* that is a multiple of 2^-56 is [neg, hi, lo] with magnitude             *)
(* (hi * 2^28 + lo) * 2^-56; a sum is computed exactly and then rounded to *)
(* 53 significant bits, ties to even, as the + of a JavaScript number is.  *)

Limb == 2^28

Dbl(h, l) == [neg |-> FALSE, hi |-> h, lo |-> l]

\* The number literals of scorePlayer and buildProp.
D_0 == Dbl(0, 0)
D_0_1 == Dbl(26843545, 161061274)
D_0_45 == Dbl(120795955, 53687092)
D_0_5 == Dbl(134217728, 0)
D_0_55 == Dbl(147639500, 214748368)
D_0_75 == Dbl(201326592, 0)
D_1 == Dbl(268435456, 0)

\* The units of 2^-56 in one unit of the last place, by binade.
Ulp(h) ==
    IF h >= 2^30 THEN 64
    ELSE IF h >= 2^29 THEN 32
    ELSE IF h >= 2^28 THEN 16
    ELSE IF h >= 2^27 THEN 8
    ELSE IF h >= 2^26 THEN 4
    ELSE IF h >= 2^25 THEN 2
    ELSE 1

MagLt(a, b) == a.hi < b.hi \/ (a.hi = b.hi /\ a.lo < b.lo)
MagEq(a, b) == a.hi = b.hi /\ a.lo = b.lo

\* Round the exact magnitude <<h, l>> to nearest, ties to even.
RoundMag(neg, h, l) ==
    LET u == Ulp(h)
        r == l % u
        base == l - r
        odd == (base \div u) % 2 = 1
        up == 2 * r > u \/ (2 * r = u /\ odd)
        l2 == IF up THEN base + u ELSE base
    IN  IF l2 = Limb
        THEN [neg |-> neg, hi |-> h + 1, lo |-> 0]
        ELSE [neg |-> neg, hi |-> h, lo |-> l2]

MagAdd(neg, a, b) ==
    LET l == a.lo + b.lo
    IN  RoundMag(neg, a.hi + b.hi + (l \div Limb), l % Limb)

\* a - b for |a| >= |b|
MagSub(neg, a, b) ==
    LET l == a.lo - b.lo
        borrow == IF l < 0 THEN 1 ELSE 0
    IN  RoundMag(neg, a.hi - b.hi - borrow, l + borrow * Limb)

FAdd(a, b) ==
    IF a.neg = b.neg THEN MagAdd(a.neg, a, b)
    ELSE IF MagEq(a, b) THEN D_0
    ELSE IF MagLt(a, b) THEN MagSub(b.neg, b, a)
    ELSE MagSub(a.neg, a, b)

FNeg(a) == IF MagEq(a, D_0) THEN a ELSE [a EXCEPT !.neg = ~a.neg]
FSub(a, b) == FAdd(a, FNeg(b))

FLt(a, b) ==
    IF a.neg /\ ~b.neg THEN ~(MagEq(a, D_0) /\ MagEq(b, D_0))
    ELSE IF ~a.neg /\ b.neg THEN FALSE
    ELSE IF a.neg THEN MagLt(b, a)
    ELSE MagLt(a, b)
FEq(a, b) == (MagEq(a, b) /\ a.neg = b.neg) \/ (MagEq(a, D_0) /\ MagEq(b, D_0))
FLe(a, b) == FLt(a, b) \/ FEq(a, b)
FGe(a, b) == FLe(b, a)

MathMax(a, b) == IF FLt(a, b) THEN b ELSE a
MathMin(a, b) == IF FLt(b, a) THEN b ELSE a

---------------------------------------------------------------------------
(* Stats objects: the values of player_stats.json.  obj = FALSE is the     *)
(* value null in the place of an object; a field that is absent reads      *)
(* undefined.                                                              *)

EmptyStats ==
    [obj |-> TRUE, pts |-> JsUndefined, games |-> JsUndefined,
     usage |-> JsUndefined, min |-> JsUndefined, def_rank |-> JsUndefined,
     confidence |-> JsUndefined,
     reb |-> JsUndefined, ast |-> JsUndefined,
     l5_pts |-> JsUndefined, l5_reb |-> JsUndefined, l5_ast |-> JsUndefined,
     trend_pts |-> JsUndefined, trend_reb |-> JsUndefined,
     trend_ast |-> JsUndefined]

NullStats == [EmptyStats EXCEPT !.obj = FALSE]

---------------------------------------------------------------------------
(* TIER SCORE LOGIC *)

\* scorePlayer with the adjustments written in whole points and the clamp left out
scorePlayerUnclamped(s) ==
    IF ~s.obj \/ ~Truthy(s.pts) \/ JsStrictEq(s.games, 0) THEN D_0_45
    ELSE
        LET sc0 == D_0_5
            sc1 == IF JsGt(s.usage, 22) THEN FAdd(sc0, D_1) ELSE sc0
            sc2 == IF JsGt(s.min, 28) THEN FAdd(sc1, D_1) ELSE sc1
            sc3 == IF Truthy(s.def_rank) /\ JsLe(s.def_rank, 10)
                   THEN FAdd(sc2, D_1) ELSE sc2
        IN  IF Truthy(s.def_rank) /\ JsGe(s.def_rank, 20)
            THEN FSub(sc3, D_1) ELSE sc3

\* scorePlayer short-circuiting only when pts is zero AND no games are recorded
scorePlayerAndGuard(s) ==
    IF ~s.obj \/ (~Truthy(s.pts) /\ ~Truthy(s.games)) THEN D_0_45
    ELSE
        LET sc0 == D_0_5
            sc1 == IF JsGt(s.usage, 22) THEN FAdd(sc0, D_0_1) ELSE sc0
            sc2 == IF JsGt(s.min, 28) THEN FAdd(sc1, D_0_1) ELSE sc1
            sc3 == IF Truthy(s.def_rank) /\ JsLe(s.def_rank, 10)
                   THEN FAdd(sc2, D_0_1) ELSE sc2
            sc4 == IF Truthy(s.def_rank) /\ JsGe(s.def_rank, 20)
                   THEN FSub(sc3, D_0_1) ELSE sc3
        IN  MathMax(D_0, MathMin(D_1, sc4))

\* scorePlayer of the rewritten script (variant B)
scorePlayer(s) ==
    IF ~s.obj \/ ~Truthy(s.pts) \/ JsStrictEq(s.games, 0) THEN D_0_45
    ELSE
        LET sc0 == D_0_5
            sc1 == IF JsGt(s.usage, 22) THEN FAdd(sc0, D_0_1) ELSE sc0
            sc2 == IF JsGt(s.min, 28) THEN FAdd(sc1, D_0_1) ELSE sc1
            sc3 == IF Truthy(s.def_rank) /\ JsLe(s.def_rank, 10)
                   THEN FAdd(sc2, D_0_1) ELSE sc2
            sc4 == IF Truthy(s.def_rank) /\ JsGe(s.def_rank, 20)
                   THEN FSub(sc3, D_0_1) ELSE sc3
        IN  MathMax(D_0, MathMin(D_1, sc4))

\* scorePlayer of the first script (variant C)
scorePlayer002(s) ==
    IF ~s.obj \/ ~Truthy(s.pts) THEN D_0_45
    ELSE
        LET sc0 == D_0_5
            sc1 == IF JsGt(s.usage, 22) THEN FAdd(sc0, D_0_1) ELSE sc0
            sc2 == IF JsGt(s.min, 28) THEN FAdd(sc1, D_0_1) ELSE sc1
            sc3 == IF JsLe(s.def_rank, 10) THEN FAdd(sc2, D_0_1) ELSE sc2
            sc4 == IF JsGe(s.def_rank, 20) THEN FSub(sc3, D_0_1) ELSE sc3
        IN  MathMax(D_0, MathMin(D_1, sc4))

\* the tier with the first comparison turned around (<= for >=)
tierOfFlipped(score) ==
    IF FLe(score, D_0_75) THEN "GREEN"
    ELSE IF FGe(score, D_0_55) THEN "YELLOW"
    ELSE "RED"

\* let tier = "RED"; if (score >= 0.75) ...; else if (score >= 0.55) ...
tierOf(score) ==
    IF FGe(score, D_0_75) THEN "GREEN"
    ELSE IF FGe(score, D_0_55) THEN "YELLOW"
    ELSE "RED"

\* let tier = "RED"; if (confidence >= 80) ...; else if (confidence >= 60) ...
tierOfConfidence(confidence) ==
    IF JsGe(confidence, 80) THEN "GREEN"
    ELSE IF JsGe(confidence, 60) THEN "YELLOW"
    ELSE "RED"

\* playerStats[name] || {}
statsOf(name) ==
    IF name \in DOMAIN playerStats /\ playerStats[name].obj
    THEN playerStats[name]
    ELSE EmptyStats

\* A buildProp that keeps a hidden state: it scores higher once the page
\* holds props of an earlier build.
buildPropCounted(name) ==
    LET stats == statsOf(name)
        score == IF lastProps = <<>> THEN scorePlayer(stats)
                 ELSE MathMin(FAdd(scorePlayer(stats), D_0_1), D_1)
    IN  [name |-> name, stats |-> stats, tier |-> tierOf(score), score |-> score]

\* buildProp of variant B
buildProp(name) ==
    LET stats == statsOf(name)
        score == scorePlayer(stats)
    IN  [name |-> name, stats |-> stats, tier |-> tierOf(score), score |-> score]

\* buildProp of variant C
buildProp002(name) ==
    LET stats == statsOf(name)
        score == scorePlayer002(stats)
    IN  [name |-> name, stats |-> stats, tier |-> tierOf(score), score |-> score]

\* buildProp of variant A: the confidence is a field of the stats, default 50
buildPropConf(name) ==
    LET stats == statsOf(name)
        confidence == JsCoalesce(stats.confidence, JsNum(50))
    IN  [name |-> name, stats |-> stats, tier |-> tierOfConfidence(confidence),
         confidence |-> confidence]

---------------------------------------------------------------------------
(* TREND BARS.  A bar width is a percentage num/den, or NaN; the quotient  *)
(* is kept exact, which decides every comparison the same way as the       *)
(* rounded one does.                                                       *)

Pct(n, d) == [nan |-> FALSE, num |-> n, den |-> d]
PctNaN == [nan |-> TRUE, num |-> 0, den |-> 1]

\* (x / ceiling) * 100
PctOf(x, ceiling) ==
    IF HasNumber(x) THEN Pct(ToNumber(x) * 100, ceiling) ELSE PctNaN

\* Math.min(100, pct)
MinHundred(pct) ==
    IF pct.nan THEN pct
    ELSE IF pct.num > 100 * pct.den THEN Pct(100, 1)
    ELSE pct

\* Helper: fill trend bars / arrows.  The arrows are "UP", "DOWN" and "FLAT"
\* for the three glyphs.
fillTrend(seasonVal, last5Val, trend, maxCeiling) ==
    [width |-> MinHundred(PctOf(last5Val, IF maxCeiling # 0 THEN maxCeiling ELSE 1)),
     last5 |-> last5Val,
     season |-> seasonVal,
     arrow |-> IF trend = JsStr("up") THEN "UP"
               ELSE IF trend = JsStr("down") THEN "DOWN"
               ELSE "FLAT"]

\* The trend part of one card of renderProps, variant A (season vs last 5)
propCardTrendA(s) ==
    LET pts == JsCoalesce(s.pts, JsNum(0))
        reb == JsCoalesce(s.reb, JsNum(0))
        ast == JsCoalesce(s.ast, JsNum(0))
        l5_pts == JsCoalesce(s.l5_pts, pts)
        l5_reb == JsCoalesce(s.l5_reb, reb)
        l5_ast == JsCoalesce(s.l5_ast, ast)
    IN  [pts |-> fillTrend(pts, l5_pts, s.trend_pts, 40),
         reb |-> fillTrend(reb, l5_reb, s.trend_reb, 18),
         ast |-> fillTrend(ast, l5_ast, s.trend_ast, 12)]

\* The trend bars of one card of renderProps, variant B (mini analytics):
\* widths from the season values, no values shown, no arrows
propCardTrendB(s) ==
    [pts |-> [width |-> MinHundred(PctOf(s.pts, 40)), last5 |-> JsUndefined,
              season |-> s.pts, arrow |-> "NONE"],
     reb |-> [width |-> MinHundred(PctOf(s.reb, 15)), last5 |-> JsUndefined,
              season |-> s.reb, arrow |-> "NONE"],
     ast |-> [width |-> MinHundred(PctOf(s.ast, 12)), last5 |-> JsUndefined,
              season |-> s.ast, arrow |-> "NONE"]]

---------------------------------------------------------------------------
(* The inputs of the scoring calls: stats objects whose fields take the    *)
(* values on both sides of every threshold the code tests.                 *)

MaxRank == 30

PtsValues == {JsUndefined, JsNull, JsNum(0), JsNum(25)}
GamesValues == {JsUndefined, JsNum(0), JsNum(10)}
UsageValues == {JsUndefined, JsNum(18), JsNum(22), JsNum(24)}
MinValues == {JsUndefined, JsNum(22), JsNum(28), JsNum(30)}
DefRankValues == {JsUndefined, JsNull} \cup {JsNum(r) : r \in 1..MaxRank}
ConfidenceValues ==
    {JsNull, JsNum(0), JsNum(1), JsNum(50), JsNum(59), JsNum(60), JsNum(75),
     JsNum(79), JsNum(80), JsNum(100)}

ScoreInputs ==
    {[EmptyStats EXCEPT !.pts = p, !.games = g, !.usage = u, !.min = m,
                        !.def_rank = d] :
        p \in PtsValues, g \in GamesValues, u \in UsageValues,
        m \in MinValues, d \in DefRankValues}

ConfidenceInputs == {[EmptyStats EXCEPT !.confidence = c] : c \in ConfidenceValues}

Variants == {"A", "B", "C"}

\* The scorePlayer and the buildProp of the script the page runs.
ScorePlayer(s) == IF variant = "C" THEN scorePlayer002(s) ELSE scorePlayer(s)
BuildProp(name) ==
    IF variant = "A" THEN buildPropConf(name)
    ELSE IF variant = "C" THEN buildProp002(name)
    ELSE buildProp(name)

Names == {"ann", "bob", "cy", "dee"}

\* The page as the script's declarations leave it.
PageInit ==
    /\ rostersData = <<>>
    /\ scheduleData = <<>>
    /\ lastProps = <<>>
    /\ currentFilter = "all"
    /\ currentView = "expanded"
    /\ panel = [kind |-> "empty"]
    /\ app = [view |-> "none"]
    /\ loads = <<>>
    /\ built = [n \in Names |-> [seen |-> FALSE]]

InitScore ==
    /\ PageInit
    /\ variant \in Variants
    /\ arg \in ScoreInputs \cup ConfidenceInputs \cup {NullStats}
    /\ \E listed \in BOOLEAN :
          playerStats = IF listed THEN [n \in {"ann"} |-> arg] ELSE <<>>
    /\ pc = "call"
    /\ out = [fn |-> "none"]

\* scorePlayer(arg), in the scripts that have it
CallScorePlayer ==
    /\ pc = "call"
    /\ variant \in {"B", "C"}
    /\ out' = [fn |-> "scorePlayer", score |-> ScorePlayer(arg)]
    /\ pc' = "done"
    /\ UNCHANGED <<variant, playerStats, arg, pageVars>>

\* buildProp("ann")
CallBuildProp ==
    /\ pc = "call"
    /\ out' = [fn |-> "buildProp", prop |-> BuildProp("ann")]
    /\ pc' = "done"
    /\ UNCHANGED <<variant, playerStats, arg, pageVars>>

NextScore == CallScorePlayer \/ CallBuildProp

SpecScore == InitScore /\ [][NextScore]_vars

---------------------------------------------------------------------------
(* The inputs of the trend bars: one stat takes every combination of       *)
(* season value, last-5 value and trend hint, the other two one of two.    *)

Stats3 == {"pts", "reb", "ast"}

SeasonValues == {JsUndefined, JsNum(0), JsNum(16), JsNum(20)}
Last5Values == {JsUndefined, JsNull, JsNum(8), JsNum(16), JsNum(45)}
TrendHints == {JsUndefined, JsStr("up"), JsStr("down"), JsStr("flat")}

Triples == [season : SeasonValues, last5 : Last5Values, hint : TrendHints]
FewTriples ==
    {[season |-> JsUndefined, last5 |-> JsUndefined, hint |-> JsUndefined],
     [season |-> JsNum(16), last5 |-> JsNum(8), hint |-> JsStr("up")]}

WithTrend(p, r, a) ==
    [EmptyStats EXCEPT
        !.pts = p.season, !.l5_pts = p.last5, !.trend_pts = p.hint,
        !.reb = r.season, !.l5_reb = r.last5, !.trend_reb = r.hint,
        !.ast = a.season, !.l5_ast = a.last5, !.trend_ast = a.hint]

TrendInputs ==
    {WithTrend(x, y, z) : x \in Triples, y \in FewTriples, z \in FewTriples}
        \cup {WithTrend(y, x, z) : x \in Triples, y \in FewTriples, z \in FewTriples}
        \cup {WithTrend(y, z, x) : x \in Triples, y \in FewTriples, z \in FewTriples}

\* The trend bars of the card the page's script renders for prop p; the
\* first script (variant C) renders none.
PropCardTrend(p) ==
    IF variant = "A" THEN propCardTrendA(p.stats)
    ELSE IF variant = "B" THEN propCardTrendB(p.stats)
    ELSE [pts |-> "NONE", reb |-> "NONE", ast |-> "NONE"]

InitTrend ==
    /\ PageInit
    /\ variant \in Variants
    /\ arg \in TrendInputs
    /\ playerStats = [n \in {"ann"} |-> arg]
    /\ pc = "call"
    /\ out = [fn |-> "none"]

\* one card of renderProps, for buildProp("ann")
CallRenderCard ==
    /\ pc = "call"
    /\ LET p == BuildProp("ann")
       IN  out' = [fn |-> "renderCard", prop |-> p, trend |-> PropCardTrend(p)]
    /\ pc' = "done"
    /\ UNCHANGED <<variant, playerStats, arg, pageVars>>

NextTrend == CallRenderCard

SpecTrend == InitTrend /\ [][NextTrend]_vars

---------------------------------------------------------------------------
(* THE PAGE.  The three JSON files the load button fetches come in two     *)
(* editions; a load reads one of them.                                     *)

Editions == {"v1", "v2"}
Files == {"rosters.json", "schedule.json", "player_stats.json"}
Filters == {"all", "green", "yellow", "red"}
Views == {"expanded", "compact"}

MaxLoads == 2

RostersFile(e) ==
    IF e = "v1"
    THEN [t \in {"AAA", "BBB"} |->
            IF t = "AAA" THEN <<"ann", "bob">> ELSE <<"cy", "ann">>]
    ELSE [t \in {"AAA", "BBB"} |->
            IF t = "AAA" THEN <<"bob", "dee">> ELSE <<"cy">>]

ScheduleFile(e) ==
    IF e = "v1"
    THEN [d \in {"today"} |->
            <<[away_team |-> "AAA", home_team |-> "BBB"],
              [away_team |-> "BBB", home_team |-> "CCC"]>>]
    ELSE [d \in {"today"} |-> <<[away_team |-> "BBB", home_team |-> "AAA"]>>]

StatsFile(e) ==
    IF e = "v1"
    THEN [n \in {"ann", "bob", "cy"} |->
            CASE n = "ann" ->
                   [EmptyStats EXCEPT !.pts = JsNum(25), !.usage = JsNum(24),
                                      !.min = JsNum(30), !.def_rank = JsNum(8),
                                      !.confidence = JsNum(85),
                                      !.l5_pts = JsNum(45), !.trend_pts = JsStr("up")]
              [] n = "bob" ->
                   [EmptyStats EXCEPT !.pts = JsNum(16), !.usage = JsNum(24),
                                      !.min = JsNum(22), !.confidence = JsNum(60),
                                      !.reb = JsNum(16)]
              [] n = "cy" ->
                   [EmptyStats EXCEPT !.pts = JsNum(20), !.def_rank = JsNum(25)]]
    ELSE [n \in {"ann", "bob", "dee"} |->
            CASE n = "ann" -> [EmptyStats EXCEPT !.pts = JsNum(0), !.usage = JsNum(24)]
              [] n = "bob" ->
                   [EmptyStats EXCEPT !.pts = JsNum(16), !.usage = JsNum(24),
                                      !.min = JsNum(22), !.confidence = JsNum(60),
                                      !.reb = JsNum(16)]
              [] n = "dee" ->
                   [EmptyStats EXCEPT !.pts = JsNum(20), !.min = JsNum(30),
                                      !.confidence = JsNum(60)]]

\* rostersData[team] || []
rosterOf(team) ==
    IF team \in DOMAIN rostersData THEN rostersData[team] ELSE <<>>

\* scheduleData[today] || []
todaysGames ==
    IF "today" \in DOMAIN scheduleData THEN scheduleData["today"] ELSE <<>>

\* currentFilter.toUpperCase()
toUpperCase(f) ==
    CASE f = "green" -> "GREEN" [] f = "yellow" -> "YELLOW" [] f = "red" -> "RED"
      [] OTHER -> "ALL"

\* The sort comparator is negative: a goes before b
\* ((b.confidence || 0) - (a.confidence || 0) in variant A, b.score - a.score
\* in the others).
comparatorNegative(a, b) ==
    IF variant = "A" THEN a.confidence.v > b.confidence.v
    ELSE FLt(b.score, a.score)

\* An insertion that puts x in front of the elements it ties with.
RECURSIVE insertSortedBeforeTies(_, _)
insertSortedBeforeTies(sorted, x) ==
    IF sorted = <<>> THEN <<x>>
    ELSE IF ~comparatorNegative(Head(sorted), x) THEN <<x>> \o sorted
    ELSE <<Head(sorted)>> \o insertSortedBeforeTies(Tail(sorted), x)

\* Array.prototype.sort is stable: x goes behind every element that does not
\* have to follow it.
RECURSIVE insertSorted(_, _)
insertSorted(sorted, x) ==
    IF sorted = <<>> THEN <<x>>
    ELSE IF comparatorNegative(x, Head(sorted)) THEN <<x>> \o sorted
    ELSE <<Head(sorted)>> \o insertSorted(Tail(sorted), x)

RECURSIVE sortProps(_)
sortProps(props) ==
    IF props = <<>> THEN <<>>
    ELSE insertSorted(sortProps(SubSeq(props, 1, Len(props) - 1)), props[Len(props)])

\* A filter that keeps every prop.
filterPropsAll(props, filter) == props

\* lastProps.filter(...)
filterProps(props, filter) ==
    SelectSeq(props, LAMBDA p : filter = "all" \/ p.tier = toUpperCase(filter))

\* renderProps(), reading lastProps = props, currentFilter = filter and
\* currentView = view: what propsOutput shows afterwards
renderProps(props, filter, view) ==
    LET sorted == CHOOSE x \in {sortProps(filterProps(props, filter))} : TRUE
    IN  [kind |-> "props",
         view |-> view,
         cards |-> [i \in 1..Len(sorted) |->
                      [prop |-> sorted[i], trend |-> PropCardTrend(sorted[i])]]]

\* renderProps as it would be if it kept the filtered array in lastProps.
lastPropsFiltered(props, filter) == filterProps(props, filter)

\* The array lastProps = props after renderProps(): filter() returns a new
\* array, sort() reorders that one, and the loop over it only reads the
\* entries.
lastPropsAfterRender(props, filter) == props

\* entries.push(buildProp(n)) for each name of a roster
propsOf(names) == [i \in 1..Len(names) |-> BuildProp(names[i])]

\* The builds of one handler, entered in `built`: the first and the latest
\* prop built for a name against the dataset in place, and whether the name
\* was built more than once.
recordBuilds(entries) ==
    [n \in Names |->
        LET at == {i \in 1..Len(entries) : entries[i].name = n}
            lo == CHOOSE i \in at : \A j \in at : i <= j
            hi == CHOOSE i \in at : \A j \in at : i >= j
        IN  IF at = {} THEN built[n]
            ELSE IF ~built[n].seen
            THEN [seen |-> TRUE, again |-> lo # hi,
                  first |-> entries[lo], last |-> entries[hi]]
            ELSE [seen |-> TRUE, again |-> TRUE,
                  first |-> built[n].first, last |-> entries[hi]]]

Init ==
    /\ variant \in Variants
    /\ playerStats = <<>>
    /\ PageInit
    /\ pc = "page"
    /\ arg = EmptyStats
    /\ out = [fn |-> "none"]

\* loadButton click: loadData() up to its await.  Promise.all starts the
\* three fetches and counts the ones that have resolved.
ClickLoad ==
    /\ Len(loads) < MaxLoads
    /\ \E e \in Editions :
          loads' = Append(loads, [edition |-> e, status |-> "pending", got |-> 0])
    /\ UNCHANGED <<variant, app, playerStats, rostersData, scheduleData, lastProps,
                   currentFilter, currentView, panel, built, callVars>>

\* A fetch of load k fails: Promise.all rejects, the catch block alerts, and
\* what the other fetches bring is ignored.
FetchFail(k) ==
    /\ k \in 1..Len(loads)
    /\ loads[k].status = "pending"
    /\ loads' = [loads EXCEPT ![k] = [edition |-> @.edition, status |-> "failed"]]
    /\ UNCHANGED <<variant, app, playerStats, rostersData, scheduleData, lastProps,
                   currentFilter, currentView, panel, built, callVars>>

\* A loadData that stores each file as soon as its fetch succeeds.
FetchOkEager(k) ==
    /\ k \in 1..Len(loads)
    /\ loads[k].status = "pending"
    /\ loads' = IF loads[k].got + 1 < Cardinality(Files)
                THEN [loads EXCEPT ![k].got = @ + 1]
                ELSE [loads EXCEPT ![k] = [edition |-> @.edition, status |-> "done"]]
    /\ rostersData' = IF loads[k].got = 0 THEN RostersFile(loads[k].edition)
                      ELSE rostersData
    /\ scheduleData' = IF loads[k].got = 1 THEN ScheduleFile(loads[k].edition)
                       ELSE scheduleData
    /\ playerStats' = IF loads[k].got = 2 THEN StatsFile(loads[k].edition)
                      ELSE playerStats
    /\ built' = IF playerStats' = playerStats THEN built
                ELSE [n \in Names |-> [seen |-> FALSE]]
    /\ UNCHANGED <<variant, app, lastProps, panel, currentFilter, currentView, callVars>>

\* A fetch of load k succeeds; with the last of the three Promise.all
\* resolves and loadData runs on after its await.
FetchOk(k) ==
    /\ k \in 1..Len(loads)
    /\ loads[k].status = "pending"
    /\ IF loads[k].got + 1 < Cardinality(Files)
       THEN /\ loads' = [loads EXCEPT ![k].got = @ + 1]
            /\ UNCHANGED <<playerStats, rostersData, scheduleData, lastProps,
                           panel, built>>
       ELSE /\ loads' = [loads EXCEPT ![k] = [edition |-> @.edition, status |-> "done"]]
            /\ rostersData' = RostersFile(loads[k].edition)
            /\ scheduleData' = ScheduleFile(loads[k].edition)
            /\ playerStats' = StatsFile(loads[k].edition)
            /\ built' = IF playerStats' = playerStats THEN built
                        ELSE [n \in Names |-> [seen |-> FALSE]]
            /\ IF variant = "A"
               THEN /\ lastProps' = <<>>
                    /\ panel' = renderProps(<<>>, currentFilter, currentView)
               ELSE UNCHANGED <<lastProps, panel>>
    /\ UNCHANGED <<variant, app, currentFilter, currentView, callVars>>

\* click on a team entry: showTeamPlayers(team)
ShowTeamPlayers(team) ==
    /\ team \in DOMAIN rostersData
    /\ IF variant = "A"
       THEN \E entries \in {propsOf(rosterOf(team))} :
                /\ lastProps' = lastPropsAfterRender(entries, currentFilter)
                /\ panel' = renderProps(entries, currentFilter, currentView)
                /\ built' = recordBuilds(entries)
       ELSE /\ panel' = [kind |-> "roster", team |-> team,
                         names |-> IF variant = "B" THEN rosterOf(team)
                                   ELSE rostersData[team]]
            /\ lastProps' = <<>>
            /\ UNCHANGED built
    /\ UNCHANGED <<variant, app, playerStats, rostersData, scheduleData,
                   currentFilter, currentView, loads, callVars>>

\* click on a game card: showGameProps(game)
ShowGameProps(g) ==
    /\ g \in 1..Len(todaysGames)
    /\ \E entries \in {propsOf(rosterOf(todaysGames[g].away_team))
                          \o propsOf(rosterOf(todaysGames[g].home_team))} :
           /\ lastProps' = lastPropsAfterRender(entries, currentFilter)
           /\ panel' = renderProps(entries, currentFilter, currentView)
           /\ built' = recordBuilds(entries)
    /\ UNCHANGED <<variant, app, playerStats, rostersData, scheduleData,
                   currentFilter, currentView, loads, callVars>>

\* click on a filter button
ClickFilter(f) ==
    /\ currentFilter' = f
    /\ panel' = renderProps(lastProps, f, currentView)
    /\ lastProps' = lastPropsAfterRender(lastProps, f)
    /\ UNCHANGED <<variant, app, playerStats, rostersData, scheduleData,
                   currentView, loads, built, callVars>>

\* click on a view button (variant A)
ClickView(v) ==
    /\ variant = "A"
    /\ currentView' = v
    /\ panel' = renderProps(lastProps, currentFilter, v)
    /\ lastProps' = lastPropsAfterRender(lastProps, currentFilter)
    /\ UNCHANGED <<variant, app, playerStats, rostersData, scheduleData,
                   currentFilter, loads, built, callVars>>

Next ==
    \/ ClickLoad
    \/ \E k \in 1..MaxLoads : FetchOk(k)
    \/ \E k \in 1..MaxLoads : FetchFail(k)
    \/ \E team \in {"AAA", "BBB"} : ShowTeamPlayers(team)
    \/ \E g \in 1..2 : ShowGameProps(g)
    \/ \E f \in Filters : ClickFilter(f)
    \/ \E v \in Views : ClickView(v)

Spec == Init /\ [][Next]_vars

---------------------------------------------------------------------------
(* ONE RENDER.  renderProps run once on a list of props built from a stats *)
(* map; the lists are the sequences of up to MaxProps names, names         *)
(* repeated included.                                                      *)

MaxProps == 3

RenderNames == {"ann", "bob", "cy"}

RenderStats ==
    {[EmptyStats EXCEPT !.pts = JsNum(25), !.usage = JsNum(24), !.min = JsNum(30),
                        !.def_rank = JsNum(8), !.confidence = JsNum(85)],
     [EmptyStats EXCEPT !.pts = JsNum(16), !.usage = JsNum(24),
                        !.confidence = JsNum(60)],
     [EmptyStats EXCEPT !.pts = JsNum(20), !.def_rank = JsNum(25)],
     EmptyStats}

NameLists == UNION {[1..n -> RenderNames] : n \in 0..MaxProps}

InitRender ==
    /\ variant \in Variants
    /\ playerStats \in [RenderNames -> RenderStats]
    /\ rostersData = <<>>
    /\ scheduleData = <<>>
    /\ \E names \in NameLists : lastProps = propsOf(names)
    /\ currentFilter \in Filters
    /\ currentView = "expanded"
    /\ panel = [kind |-> "empty"]
    /\ app = [view |-> "none"]
    /\ loads = <<>>
    /\ built = [n \in Names |-> [seen |-> FALSE]]
    /\ pc = "call"
    /\ arg = EmptyStats
    /\ out = [fn |-> "none"]

\* renderProps()
CallRenderProps ==
    /\ pc = "call"
    /\ panel' = renderProps(lastProps, currentFilter, currentView)
    /\ pc' = "done"
    /\ out' = [fn |-> "renderProps"]
    /\ lastProps' = lastPropsAfterRender(lastProps, currentFilter)
    /\ UNCHANGED <<variant, app, playerStats, rostersData, scheduleData,
                   currentFilter, currentView, loads, built, arg>>

NextRender == CallRenderProps

SpecRender == InitRender /\ [][NextRender]_vars

---------------------------------------------------------------------------
(* /api/trending (functions/api/trending.js).  String functions are tables *)
(* over the strings the requests and files below contain.                  *)

\* s.toLowerCase(), s.toUpperCase(), s.trim()
toLowerCaseOf(s) ==
    CASE s = "PTS" -> "pts" [] s = "Reb" -> "reb" [] s = "USAGE" -> "usage"
      [] s = "Al" -> "al" [] s = "Bo" -> "bo" [] s = "Dee" -> "dee"
      [] s = "LAL" -> "lal" [] s = "BOS" -> "bos"
      [] OTHER -> s
toUpperCaseOf(s) ==
    CASE s = "lal" -> "LAL" [] s = "bos" -> "BOS" [] s = "g" -> "G"
      [] s = "g-f" -> "G-F" [] s = "f" -> "F" [] s = "nyk" -> "NYK"
      [] s = "[object Object]" -> "[OBJECT OBJECT]" [] OTHER -> s
trimOf(s) ==
    CASE s = " lal " -> "lal" [] s = " " -> "" [] s = " 2025-12-05 " -> "2025-12-05"
      [] OTHER -> s

\* haystack.includes(needle)
includesOf(haystack, needle) ==
    \/ needle = ""
    \/ haystack = needle
    \/ <<haystack, needle>> \in {<<"G-F", "G">>, <<"G-F", "F">>, <<"G-F", "-">>,
                                  <<"G-F", "G-">>, <<"G-F", "-F">>,
                                  <<"lal", "al">>}

\* String(x) of a number, a string or a plain object
StringOf(x) ==
    IF x.t = "string" THEN x.s
    ELSE IF x.t = "object" THEN "[object Object]"
    ELSE CASE x.v = 7 -> "7" [] x.v = 8 -> "8" [] OTHER -> "0"

\* parseInt(v, 10): the leading integer of the text, NaN without one
parseInt(s) ==
    CASE s = "0" -> [nan |-> FALSE, n |-> 0]
      [] s = "1" -> [nan |-> FALSE, n |-> 1]
      [] s = "2" -> [nan |-> FALSE, n |-> 2]
      [] s = "2.9" -> [nan |-> FALSE, n |-> 2]
      [] s = "200" -> [nan |-> FALSE, n |-> 200]
      [] s = "201" -> [nan |-> FALSE, n |-> 201]
      [] s = "-1" -> [nan |-> FALSE, n |-> 0 - 1]
      [] OTHER -> [nan |-> TRUE, n |-> 0]

\* Number(v) of a string: the number the whole text spells, NaN otherwise
NumberOfText(s) ==
    CASE s = "12" -> [nan |-> FALSE, n |-> 12]
      [] OTHER -> [nan |-> TRUE, n |-> 0]

clampInt(v, min, max) ==
    LET n == parseInt(v)
    IN  IF n.nan THEN min
        ELSE LET lo == IF n.n > min THEN n.n ELSE min
             IN  IF lo < max THEN lo ELSE max

numberOrNull(v) ==
    IF v.t \in {"undefined", "null"} \/ v = JsStr("") THEN JsNull
    ELSE IF v.t = "number" THEN v
    ELSE IF NumberOfText(v.s).nan THEN JsNull
    ELSE JsNum(NumberOfText(v.s).n)

\* A value of player_stats.json as the endpoint reads it; obj = FALSE is a
\* value that is no object.
EmptyRaw ==
    [obj |-> TRUE, player_id |-> JsUndefined, team |-> JsUndefined,
     pts |-> JsUndefined, reb |-> JsUndefined, ast |-> JsUndefined,
     last5_pts |-> JsUndefined, last5_reb |-> JsUndefined,
     last5_ast |-> JsUndefined, usage |-> JsUndefined]

\* raw: the entries of the file in key order, each [name, v]
normalizePlayersFromMap(raw) ==
    LET one(entry) ==
            [id |-> IF entry.v.player_id.t \notin {"undefined", "null"}
                    THEN StringOf(entry.v.player_id) ELSE entry.name,
             name |-> entry.name,
             team |-> IF Truthy(entry.v.team)
                      THEN toUpperCaseOf(StringOf(entry.v.team)) ELSE "",
             pts |-> numberOrNull(entry.v.pts),
             reb |-> numberOrNull(entry.v.reb),
             ast |-> numberOrNull(entry.v.ast),
             last5_pts |-> numberOrNull(entry.v.last5_pts),
             last5_reb |-> numberOrNull(entry.v.last5_reb),
             last5_ast |-> numberOrNull(entry.v.last5_ast),
             usage |-> numberOrNull(entry.v.usage)]
        objects == SelectSeq(raw, LAMBDA entry : entry.v.obj)
    IN  [i \in 1..Len(objects) |-> one(objects[i])]

\* A score without the fallback to the season value.
computeTrendingScoreLast5Only(p, stat) ==
    CASE stat = "reb" -> p.last5_reb
      [] stat = "ast" -> p.last5_ast
      [] stat = "usage" -> p.usage
      [] OTHER -> p.last5_pts

computeTrendingScore(p, stat) ==
    CASE stat = "reb" -> JsCoalesce(p.last5_reb, p.reb)
      [] stat = "ast" -> JsCoalesce(p.last5_ast, p.ast)
      [] stat = "usage" -> p.usage
      [] OTHER -> JsCoalesce(p.last5_pts, p.pts)

\* An entry of a rosters.json that is an array of player objects.
EmptyRosterEntry ==
    [id |-> JsUndefined, player_id |-> JsUndefined, name |-> JsUndefined,
     team |-> JsUndefined, team_abbr |-> JsUndefined,
     pos |-> JsUndefined, position |-> JsUndefined]

\* loadRosters: the array of the file; [] when the fetch fails or the file
\* is no array
loadRosters(file) == IF file.ok /\ file.isArray THEN file.list ELSE <<>>

\* What buildRosterIndex stores for entry p: its keys and its value.  An
\* entry without a name gets none from first_name and last_name here.
rosterKeys(p) ==
    LET id == IF p.id.t \notin {"undefined", "null"} THEN StringOf(p.id)
              ELSE IF p.player_id.t \notin {"undefined", "null"}
              THEN StringOf(p.player_id) ELSE ""
        name == IF Truthy(p.name) THEN StringOf(p.name) ELSE ""
    IN  {id, name} \ {""}
rosterValue(p) ==
    LET team == IF Truthy(p.team) THEN p.team
                ELSE IF Truthy(p.team_abbr) THEN p.team_abbr ELSE JsStr("")
        pos == IF Truthy(p.pos) THEN p.pos
               ELSE IF Truthy(p.position) THEN p.position ELSE JsStr("")
    IN  [team |-> IF Truthy(team) THEN toUpperCaseOf(StringOf(team)) ELSE "",
         pos |-> pos]

\* rosterIndex.get(key) on the index buildRosterIndex makes of rosters: the
\* value the last entry with that key has set
rosterIndexGet(rosters, key) ==
    LET at == {i \in 1..Len(rosters) : key \in rosterKeys(rosters[i])}
    IN  IF at = {} THEN [found |-> FALSE]
        ELSE LET last == CHOOSE i \in at : \A j \in at : j <= i
             IN  [found |-> TRUE, team |-> rosterValue(rosters[last]).team,
                  pos |-> rosterValue(rosters[last]).pos]

\* trending.sort((a, b) => b.score - a.score), a stable sort
RECURSIVE insertByScore(_, _)
insertByScore(sorted, x) ==
    IF sorted = <<>> THEN <<x>>
    ELSE IF x.score.v > Head(sorted).score.v THEN <<x>> \o sorted
    ELSE <<Head(sorted)>> \o insertByScore(Tail(sorted), x)

RECURSIVE sortByScore(_)
sortByScore(rows) ==
    IF rows = <<>> THEN <<>>
    ELSE insertByScore(sortByScore(SubSeq(rows, 1, Len(rows) - 1)), rows[Len(rows)])

\* The row of player p, and whether the loop pushes it.
trendingRow(p, rosters, stat) ==
    LET byId == rosterIndexGet(rosters, p.id)
        roster == IF byId.found THEN byId ELSE rosterIndexGet(rosters, p.name)
    IN  [playerId |-> p.id, name |-> p.name,
         team |-> IF roster.found THEN roster.team ELSE p.team,
         pos |-> IF roster.found THEN roster.pos ELSE JsNull,
         stat |-> stat,
         score |-> computeTrendingScore(p, stat)]
trendingKeeps(row, teamFilter, posFilter) ==
    /\ ~(teamFilter # "" /\ row.team # teamFilter)
    /\ ~(posFilter # "" /\
            (~Truthy(row.pos) \/ ~includesOf(toUpperCaseOf(row.pos.s), posFilter)))
    /\ row.score.t \notin {"undefined", "null"}

\* onRequest of /api/trending: the response to request req over the files
onRequestTrending(req, files) ==
    IF req.method # "GET" THEN [status |-> 405]
    ELSE IF ~files.stats.ok THEN [status |-> 500]
    ELSE
    LET stat == toLowerCaseOf(IF Truthy(req.stat) THEN req.stat.s ELSE "pts")
        limit == IF Truthy(req.limit) THEN clampInt(req.limit.s, 1, 200) ELSE 50
        teamFilter == toUpperCaseOf(trimOf(IF Truthy(req.team) THEN req.team.s ELSE ""))
        posFilter == toUpperCaseOf(trimOf(IF Truthy(req.position)
                                          THEN req.position.s ELSE ""))
        players == normalizePlayersFromMap(files.stats.entries)
        rosters == loadRosters(files.rosters)
        rows == [i \in 1..Len(players) |-> trendingRow(players[i], rosters, stat)]
        trending == SelectSeq(rows, LAMBDA r : trendingKeeps(r, teamFilter, posFilter))
        sorted == sortByScore(trending)
        limited == SubSeq(sorted, 1, IF limit < Len(sorted) THEN limit ELSE Len(sorted))
    IN  [status |-> 200,
         data |-> limited,
         meta |-> [totalPlayers |-> Len(players), trendingPlayers |-> Len(limited),
                   stat |-> stat, limit |-> limit,
                   team |-> teamFilter, position |-> posFilter]]

\* Requests and files of /api/trending.  A parameter that is absent reads
\* null (searchParams.get).
MaxPlayers == 3

TrendingNames == <<"ann", "bob", "cy", "dee">>

TrendingValues ==
    {[EmptyRaw EXCEPT !.team = JsStr("lal"), !.player_id = JsNum(7),
                      !.pts = JsNum(20), !.last5_pts = JsNum(25),
                      !.reb = JsNum(5), !.last5_reb = JsNum(4),
                      !.usage = JsNum(30)],
     [EmptyRaw EXCEPT !.team = JsStr("BOS"), !.pts = JsNum(22),
                      !.reb = JsNum(7), !.usage = JsNum(20)],
     [EmptyRaw EXCEPT !.team = JsStr("LAL"), !.pts = JsStr("12"),
                      !.last5_pts = JsStr(""), !.ast = JsNum(3),
                      !.last5_ast = JsNum(0), !.usage = JsStr("n/a")],
     [EmptyRaw EXCEPT !.team = JsStr("LAL"), !.last5_pts = JsNum(25),
                      !.reb = JsNum(7), !.last5_reb = JsNull],
     EmptyRaw,
     [EmptyRaw EXCEPT !.obj = FALSE]}

StatsEntries ==
    UNION {{[i \in 1..n |-> [name |-> TrendingNames[i], v |-> f[i]]] :
                f \in [1..n -> TrendingValues]} : n \in 0..MaxPlayers}

RosterFiles ==
    {[ok |-> FALSE, isArray |-> FALSE, list |-> <<>>],
     [ok |-> TRUE, isArray |-> FALSE, list |-> <<>>],
     [ok |-> TRUE, isArray |-> TRUE,
      list |-> <<[EmptyRosterEntry EXCEPT !.name = JsStr("ann"),
                                          !.team = JsStr("bos"), !.pos = JsStr("g-f")],
                 [EmptyRosterEntry EXCEPT !.id = JsNum(7), !.team_abbr = JsStr("lal"),
                                          !.position = JsStr("F")]>>]}

StatParams == {JsNull, JsStr("pts"), JsStr("Reb"), JsStr("reb"), JsStr("ast"),
               JsStr("usage"), JsStr("min")}
LimitParams == {JsNull, JsStr(""), JsStr("0"), JsStr("1"), JsStr("2"), JsStr("2.9"),
                JsStr("200"), JsStr("201"), JsStr("-1"), JsStr("abc")}
TeamParams == {JsNull, JsStr(" lal "), JsStr("BOS")}
PositionParams == {JsNull, JsStr("g")}

TrendingRequests ==
    {[method |-> "GET", stat |-> s, limit |-> l, team |-> JsNull, position |-> JsNull] :
        s \in StatParams, l \in LimitParams}
    \cup {[method |-> "GET", stat |-> s, limit |-> l, team |-> tm, position |-> ps] :
            s \in {JsNull, JsStr("reb")}, l \in {JsNull, JsStr("1")},
            tm \in TeamParams, ps \in PositionParams}
    \cup {[method |-> "POST", stat |-> JsNull, limit |-> JsNull, team |-> JsNull,
           position |-> JsNull]}

InitTrending ==
    /\ variant = "B"
    /\ playerStats = <<>>
    /\ PageInit
    /\ arg \in [req : TrendingRequests,
                files : [stats : [ok : {TRUE}, entries : StatsEntries]
                                    \cup {[ok |-> FALSE, entries |-> <<>>]},
                         rosters : RosterFiles]]
    /\ pc = "call"
    /\ out = [fn |-> "none"]

\* GET /api/trending
CallTrending ==
    /\ pc = "call"
    /\ \E res \in {onRequestTrending(arg.req, arg.files)} :
          out' = [fn |-> "trending", res |-> res]
    /\ pc' = "done"
    /\ UNCHANGED <<variant, playerStats, arg, pageVars>>

NextTrending == CallTrending

SpecTrending == InitTrending /\ [][NextTrending]_vars

---------------------------------------------------------------------------
(* /api/games (functions/api/games.js).                                    *)

\* A plain object with the two properties the endpoint reads from a team.
JsTeam(abbreviation, abbr) ==
    [t |-> "object", v |-> 0, s |-> "", abbreviation |-> abbreviation, abbr |-> abbr]

\* raw.length >= 10, /^\d{4}-\d{2}-\d{2}/.test(raw), raw.slice(0, 10)
lengthAtLeast10(raw) ==
    raw \in {"2025-12-05", "2025-12-06", "2025-12-05T19:00:00Z", "12/05/2025",
             "[object Object]"}
startsWithDate(raw) == raw \in {"2025-12-05", "2025-12-06", "2025-12-05T19:00:00Z"}
slice10(raw) ==
    CASE raw = "2025-12-05T19:00:00Z" -> "2025-12-05"
      [] raw = "[object Object]" -> "[object Ob"
      [] OTHER -> raw

\* The candidate fields of extractGameDate, in the order it tries them.
candidates == <<"game_date", "date", "start_time", "tipoff", "start_time_utc">>

\* extractGameDate: the first candidate field whose text starts with a date
extractGameDate(game) ==
    LET hits == {i \in 1..Len(candidates) :
                    /\ Truthy(game[candidates[i]])
                    /\ lengthAtLeast10(StringOf(game[candidates[i]]))
                    /\ startsWithDate(StringOf(game[candidates[i]]))}
    IN  IF hits = {} THEN [dateStr |-> JsNull, fieldName |-> JsNull]
        ELSE LET i == CHOOSE h \in hits : \A j \in hits : h <= j
             IN  [dateStr |-> JsStr(slice10(StringOf(game[candidates[i]]))),
                  fieldName |-> JsStr(candidates[i])]

\* a || b || c || null
firstTruthy(a, b, c) ==
    IF Truthy(a) THEN a ELSE IF Truthy(b) THEN b ELSE IF Truthy(c) THEN c ELSE JsNull

\* extractTeamAbbrs: the nested-object step runs only when the first step
\* found nothing although home_team is truthy, which cannot happen.
extractTeamAbbrs(game) ==
    LET home0 == firstTruthy(game.home_team, game.home, game.home_abbr)
        away0 == firstTruthy(game.away_team, game.away, game.away_abbr)
        home1 == IF ~Truthy(home0) /\ Truthy(game.home_team) /\ game.home_team.t = "object"
                 THEN firstTruthy(game.home_team.abbreviation, game.home_team.abbr, JsNull)
                 ELSE home0
        away1 == IF ~Truthy(away0) /\ Truthy(game.away_team) /\ game.away_team.t = "object"
                 THEN firstTruthy(game.away_team.abbreviation, game.away_team.abbr, JsNull)
                 ELSE away0
    IN  [home |-> IF Truthy(home1) THEN JsStr(toUpperCaseOf(StringOf(home1))) ELSE JsNull,
         away |-> IF Truthy(away1) THEN JsStr(toUpperCaseOf(StringOf(away1))) ELSE JsNull]

\* The date filter of filterGames, reading the one field usedDateField.
onTargetDate(g, usedDateField, targetDate) ==
    LET raw == StringOf(IF Truthy(g[usedDateField]) THEN g[usedDateField] ELSE JsStr(""))
    IN  lengthAtLeast10(raw) /\ slice10(raw) = targetDate

\* The team filter of filterGames.
playsFor(g, teamAbbr) ==
    extractTeamAbbrs(g).home = JsStr(teamAbbr) \/ extractTeamAbbrs(g).away = JsStr(teamAbbr)

\* filterGames as it would be if it filtered on game_date when no game has a
\* detectable date (used to show that C21 notices a date filter).
filterGamesByGameDate(allGames, targetDate, teamAbbr) ==
    LET byDate == SelectSeq(allGames, LAMBDA g : onTargetDate(g, "game_date", targetDate))
        byTeam == IF teamAbbr # ""
                  THEN SelectSeq(byDate, LAMBDA g : playsFor(g, teamAbbr))
                  ELSE byDate
    IN  [filteredGames |-> byTeam,
         dateFiltered |-> TRUE,
         teamFiltered |-> teamAbbr # "",
         usedDateField |-> JsStr("game_date")]

\* filterGames: the date field is taken from the first game that has one
filterGames(allGames, targetDate, teamAbbr) ==
    LET dated == {i \in 1..Len(allGames) : extractGameDate(allGames[i]).fieldName # JsNull}
        usedDateField ==
            IF dated = {} THEN JsNull
            ELSE extractGameDate(allGames[CHOOSE i \in dated : \A j \in dated : i <= j]).fieldName
        byDate == IF usedDateField # JsNull
                  THEN SelectSeq(allGames,
                                 LAMBDA g : onTargetDate(g, usedDateField.s, targetDate))
                  ELSE allGames
        byTeam == IF teamAbbr # ""
                  THEN SelectSeq(byDate, LAMBDA g : playsFor(g, teamAbbr))
                  ELSE byDate
    IN  [filteredGames |-> byTeam,
         dateFiltered |-> usedDateField # JsNull,
         teamFiltered |-> teamAbbr # "",
         usedDateField |-> usedDateField]

\* buildMeta: m is the object of its named arguments
buildMeta(m) ==
    [totalGames |-> Len(m.allGames),
     filteredGames |-> Len(m.filteredGames),
     uniqueHomeTeams |->
        Cardinality({extractTeamAbbrs(m.filteredGames[i]).home :
                        i \in 1..Len(m.filteredGames)} \ {JsNull}),
     uniqueAwayTeams |->
        Cardinality({extractTeamAbbrs(m.filteredGames[i]).away :
                        i \in 1..Len(m.filteredGames)} \ {JsNull}),
     date |-> [requested |-> IF m.dateParam # "" THEN JsStr(m.dateParam) ELSE JsNull,
               effective |-> m.effectiveDate,
               filtered |-> m.dateFiltered,
               usedField |-> m.usedDateField],
     filters |-> [team |-> m.teamParam, teamFiltered |-> m.teamFiltered]]

\* onRequest of /api/games: the response to request req when schedule.json
\* answers file and utcToday() is today.  file.kind is the shape of the
\* parsed body: an array, an object with a games array, an object without a
\* games property, an object whose games property is a text, or null.
onRequestGames(req, file, today) ==
    IF req.method # "GET" THEN [status |-> 405, error |-> "Method not allowed"]
    ELSE IF ~file.ok \/ file.kind = "null"
    THEN [status |-> 500, error |-> "Failed to load games."]
    ELSE IF file.kind = "gamesText"
    THEN [status |-> 500,
          error |-> "schedule.json is not an array and has no 'games' array"]
    ELSE
    LET dateParam == trimOf(IF Truthy(req.date) THEN req.date.s ELSE "")
        teamParam == toUpperCaseOf(trimOf(IF Truthy(req.team) THEN req.team.s ELSE ""))
        effectiveDate == IF dateParam # "" THEN dateParam ELSE today
        games == IF file.kind \in {"array", "games"} THEN file.list ELSE <<>>
        f == CHOOSE x \in {filterGames(games, effectiveDate, teamParam)} : TRUE
    IN  [status |-> 200,
         data |-> f.filteredGames,
         meta |-> buildMeta([allGames |-> games, filteredGames |-> f.filteredGames,
                             effectiveDate |-> effectiveDate, dateParam |-> dateParam,
                             teamParam |-> teamParam, dateFiltered |-> f.dateFiltered,
                             teamFiltered |-> f.teamFiltered,
                             usedDateField |-> f.usedDateField])]

\* Requests and files of /api/games.
MaxGames == 3

EmptyGame ==
    [id |-> 0, game_date |-> JsUndefined, date |-> JsUndefined,
     start_time |-> JsUndefined, tipoff |-> JsUndefined, start_time_utc |-> JsUndefined,
     home_team |-> JsUndefined, home |-> JsUndefined, home_abbr |-> JsUndefined,
     away_team |-> JsUndefined, away |-> JsUndefined, away_abbr |-> JsUndefined]

\* The games a schedule.json is made of: dates in different fields, with and
\* without a time, in a text that is no date, or in no field; teams as flat
\* texts in either case, as nested objects, or under the other keys.
GameChoices ==
    {[EmptyGame EXCEPT !.id = 1, !.game_date = JsStr("2025-12-05"),
                       !.home_team = JsStr("LAL"), !.away_team = JsStr("BOS")],
     [EmptyGame EXCEPT !.id = 2, !.date = JsStr("2025-12-05T19:00:00Z"),
                       !.home_team = JsTeam(JsStr("LAL"), JsUndefined),
                       !.away_team = JsStr("nyk")],
     [EmptyGame EXCEPT !.id = 3, !.game_date = JsStr("2025-12-06"),
                       !.date = JsStr("2025-12-06"),
                       !.home = JsStr("bos"), !.away_abbr = JsStr("LAL")],
     [EmptyGame EXCEPT !.id = 4, !.game_date = JsStr("Dec 5"),
                       !.start_time = JsStr("2025-12-05T19:00:00Z"),
                       !.home_team = JsStr("NYK"),
                       !.away_team = JsTeam(JsUndefined, JsStr("bos"))],
     [EmptyGame EXCEPT !.id = 5, !.home_team = JsStr("lal"), !.away_team = JsStr("NYK")],
     [EmptyGame EXCEPT !.id = 6, !.tipoff = JsStr("12/05/2025"), !.game_date = JsNull,
                       !.home_team = JsStr("BOS"), !.away_team = JsStr("LAL")]}

GameLists ==
    {l \in UNION {[1..n -> GameChoices] : n \in 0..MaxGames} :
        \A i, j \in 1..Len(l) : l[i].id = l[j].id => i = j}

ScheduleFiles ==
    [ok : {TRUE}, kind : {"array", "games"}, list : GameLists]
    \cup {[ok |-> TRUE, kind |-> k, list |-> <<>>] : k \in {"map", "gamesText", "null"}}
    \cup {[ok |-> FALSE, kind |-> "null", list |-> <<>>]}

DateParams == {JsNull, JsStr(""), JsStr("2025-12-05"), JsStr(" 2025-12-05 "), JsStr("2025-12-06")}
GameTeamParams == {JsNull, JsStr(" lal "), JsStr("nyk"), JsStr("BOS")}
Todays == {"2025-12-05", "2025-12-06"}

GamesRequests ==
    [method : {"GET"}, date : DateParams, team : GameTeamParams]
    \cup {[method |-> "POST", date |-> JsNull, team |-> JsNull]}

InitGames ==
    /\ variant = "B"
    /\ playerStats = <<>>
    /\ PageInit
    /\ arg \in [req : GamesRequests, file : ScheduleFiles, today : Todays]
    /\ pc = "call"
    /\ out = [fn |-> "none"]

\* GET /api/games
CallGames ==
    /\ pc = "call"
    /\ \E res \in {onRequestGames(arg.req, arg.file, arg.today)} :
          out' = [fn |-> "games", res |-> res]
    /\ pc' = "done"
    /\ UNCHANGED <<variant, playerStats, arg, pageVars>>

NextGames == CallGames

SpecGames == InitGames /\ [][NextGames]_vars

---------------------------------------------------------------------------
(* THE APP (app.js), one view at a time.  The views keep their state in    *)
(* module variables (gamesLoaded, playersState, edgesLoaded,               *)
(* edgesTabState); `app` holds those of the view under study, what its     *)
(* list element shows, and the fetches it has issued.                      *)

\* Every variable but app.
scriptVars ==
    <<variant, playerStats, rostersData, scheduleData, lastProps, currentFilter,
      currentView, panel, loads, built, callVars>>

ScriptInit ==
    /\ variant = "B"
    /\ playerStats = <<>>
    /\ rostersData = <<>>
    /\ scheduleData = <<>>
    /\ lastProps = <<>>
    /\ currentFilter = "all"
    /\ currentView = "expanded"
    /\ panel = [kind |-> "empty"]
    /\ loads = <<>>
    /\ built = [n \in Names |-> [seen |-> FALSE]]
    /\ pc = "page"
    /\ arg = EmptyStats
    /\ out = [fn |-> "none"]

\* The games view.  The range toggles of the page.
MaxRequests == 3
Ranges == {"today", "tomorrow"}

\* buildDate(range).dateStr: the date of a range (the function is called at
\* app.js:666 and defined in no file of the source tree).
buildDate(range) ==
    [dateStr |-> CASE range = "today" -> "2025-12-05"
                   [] range = "tomorrow" -> "2025-12-06"]

\* The schedule.json the server answers from, and its utcToday().
AppGame(id, date, home, away) ==
    [EmptyGame EXCEPT !.id = id, !.game_date = JsStr(date),
                      !.home_team = JsStr(home), !.away_team = JsStr(away)]
AppSchedule ==
    [ok |-> TRUE, kind |-> "array",
     list |-> <<AppGame(1, "2025-12-05", "LAL", "BOS"),
                AppGame(2, "2025-12-06", "NYK", "LAL"),
                AppGame(3, "2025-12-06", "BOS", "NYK")>>]
AppToday == "2025-12-05"

\* The response to fetch(`/api/games?date=${dateStr}`)
gamesResponse(dateStr) ==
    onRequestGames([method |-> "GET", date |-> JsStr(dateStr), team |-> JsNull],
                   AppSchedule, AppToday)

InitGamesView ==
    /\ ScriptInit
    /\ \E active \in Ranges \cup {"none"} :
          app = [view |-> "games", gamesLoaded |-> FALSE, active |-> active,
                 list |-> [kind |-> "empty"], requests |-> <<>>]

\* loadGames(range) up to its await: the list shows the loading note and
\* the fetch is on its way
loadGamesStart(a, range) ==
    [a EXCEPT !.list = [kind |-> "loading"],
              !.requests = Append(@, [range |-> range,
                                      dateStr |-> buildDate(range).dateStr,
                                      status |-> "pending"])]

\* loadGames after its await, for the response res to request k
loadGamesEnd(a, k, res) ==
    IF res.status # 200
    THEN [a EXCEPT !.requests[k].status = "failed", !.list = [kind |-> "error"]]
    ELSE [a EXCEPT !.requests[k].status = "done",
                   !.gamesLoaded = TRUE,
                   !.list = IF Len(res.data) = 0
                            THEN [kind |-> "none", dateStr |-> a.requests[k].dateStr]
                            ELSE [kind |-> "games", dateStr |-> a.requests[k].dateStr,
                                  rows |-> [i \in 1..Len(res.data) |-> res.data[i].id]]]

\* click on a range toggle (setupGamesView)
ClickToggle(range) ==
    /\ Len(app.requests) < MaxRequests
    /\ app' = loadGamesStart([app EXCEPT !.active = range], range)
    /\ UNCHANGED scriptVars

\* the games tab is activated: ensureGamesLoaded
ActivateGames ==
    /\ Len(app.requests) < MaxRequests
    /\ app' = IF app.gamesLoaded THEN app
              ELSE loadGamesStart(app, IF app.active = "none" THEN "today"
                                       ELSE app.active)
    /\ UNCHANGED scriptVars

\* the fetch of request k resolves with the server's response
GamesFetched(k) ==
    /\ k \in 1..Len(app.requests)
    /\ app.requests[k].status = "pending"
    /\ app' = loadGamesEnd(app, k, gamesResponse(app.requests[k].dateStr))
    /\ UNCHANGED scriptVars

\* the fetch of request k fails (network error, or a response that is not ok)
GamesFetchFailed(k) ==
    /\ k \in 1..Len(app.requests)
    /\ app.requests[k].status = "pending"
    /\ app' = loadGamesEnd(app, k, [status |-> 500])
    /\ UNCHANGED scriptVars

NextGamesView ==
    \/ \E range \in Ranges : ClickToggle(range)
    \/ ActivateGames
    \/ \E k \in 1..MaxRequests : GamesFetched(k)
    \/ \E k \in 1..MaxRequests : GamesFetchFailed(k)

SpecGamesView == InitGamesView /\ [][NextGamesView]_vars

\* The players view.  A player of /api/players as the page reads it: the
\* text fields are read through `||` and truthiness only, so an absent field
\* is the empty text; heightInches and weightNum are read through `??`.
AppPlayer(name, last_name, team, pos, jersey, heightInches) ==
    [name |-> name, last_name |-> last_name, team |-> team, pos |-> pos,
     jersey |-> jersey, heightInches |-> heightInches, weightNum |-> JsNull]
PlayerAl == AppPlayer("Al", "", "LAL", "G", "2", JsNum(75))
PlayerBo == AppPlayer("Bo", "", "BOS", "F", "1", JsNull)
PlayerDee == AppPlayer("Dee", "Zed", "LAL", "G-F", "", JsNum(80))

\* The bodies a response of /api/players that is ok can carry.
PlayersMeta == [uniqueTeams |-> 2, guards |-> 2, forwards |-> 2, centers |-> 0]
PlayersResponses ==
    {[ok |-> TRUE, hasData |-> TRUE, data |-> <<PlayerBo, PlayerAl>>,
      hasMeta |-> TRUE, meta |-> PlayersMeta],
     [ok |-> TRUE, hasData |-> TRUE, data |-> <<PlayerDee, PlayerBo, PlayerAl>>,
      hasMeta |-> TRUE, meta |-> PlayersMeta],
     [ok |-> TRUE, hasData |-> FALSE, data |-> <<>>,
      hasMeta |-> FALSE, meta |-> PlayersMeta]}
PlayersFailure == [ok |-> FALSE]

\* The values the controls of the view can be given.
SearchTexts == {"", "al"}
PositionValues == {"", "G"}
SortKeys == {"name-asc", "team", "height-desc", "weight-desc", "jersey-asc"}
NoFilters == [search |-> "", team |-> "", pos |-> "", sort |-> "name-asc"]

\* a.localeCompare(b) < 0, = 0, > 0 as -1, 0, 1
collation(s) ==
    CASE s = "" -> 0 [] s = "Al" -> 1 [] s = "Bo" -> 2 [] s = "BOS" -> 3
      [] s = "LAL" -> 4 [] s = "Zed" -> 5
localeCompare(a, b) ==
    IF collation(a) < collation(b) THEN 0 - 1
    ELSE IF collation(a) > collation(b) THEN 1 ELSE 0

\* a.last_name || a.name || ""
sortName(p) == IF p.last_name # "" THEN p.last_name ELSE p.name

\* x ?? -1 of a number or null
orMinusOne(x) == IF x.t = "number" THEN x.v ELSE 0 - 1

\* parseInt(p.jersey, 10) || 0
jerseyNumber(p) == IF parseInt(p.jersey).nan THEN 0 ELSE parseInt(p.jersey).n

\* the comparators of sortPlayersLocal: negative, zero or positive
comparePlayers(a, b, sortKey) ==
    CASE sortKey = "team" ->
           IF a.team = b.team THEN localeCompare(sortName(a), sortName(b))
           ELSE localeCompare(a.team, b.team)
      [] sortKey = "height-desc" ->
           IF orMinusOne(b.heightInches) # orMinusOne(a.heightInches)
           THEN orMinusOne(b.heightInches) - orMinusOne(a.heightInches)
           ELSE localeCompare(sortName(a), sortName(b))
      [] sortKey = "weight-desc" ->
           IF orMinusOne(b.weightNum) # orMinusOne(a.weightNum)
           THEN orMinusOne(b.weightNum) - orMinusOne(a.weightNum)
           ELSE localeCompare(sortName(a), sortName(b))
      [] sortKey = "jersey-asc" ->
           IF jerseyNumber(a) # jerseyNumber(b)
           THEN jerseyNumber(a) - jerseyNumber(b)
           ELSE localeCompare(sortName(a), sortName(b))
      [] OTHER -> localeCompare(sortName(a), sortName(b))

\* Array.prototype.sort is stable: x goes behind the entries it does not
\* precede
RECURSIVE insertPlayer(_, _, _)
insertPlayer(sorted, x, sortKey) ==
    IF Len(sorted) = 0 THEN <<x>>
    ELSE IF comparePlayers(x, Head(sorted), sortKey) < 0 THEN <<x>> \o sorted
    ELSE <<Head(sorted)>> \o insertPlayer(Tail(sorted), x, sortKey)

RECURSIVE sortPlayersLocal(_, _)
sortPlayersLocal(players, sortKeyRaw) ==
    IF Len(players) = 0 THEN <<>>
    ELSE insertPlayer(sortPlayersLocal(SubSeq(players, 1, Len(players) - 1),
                                       IF sortKeyRaw = "" THEN "name-asc" ELSE sortKeyRaw),
                      players[Len(players)],
                      IF sortKeyRaw = "" THEN "name-asc" ELSE sortKeyRaw)

\* the three filters of applyPlayerFilters on one player
matchesFilters(p, search, team, pos) ==
    /\ search = "" \/ includesOf(toLowerCaseOf(p.name), search)
                   \/ includesOf(toLowerCaseOf(p.team), search)
                   \/ includesOf(IF p.jersey # "" THEN toLowerCaseOf(p.jersey) ELSE "", search)
    /\ team = "" \/ p.team = team
    /\ pos = "" \/ includesOf(toUpperCaseOf(p.pos), pos)

\* renderPlayerGrid: the count in the subtitle and the cards of the grid
renderPlayerGrid(a) ==
    [a EXCEPT !.subtitle = [kind |-> "count", n |-> Len(a.playersState.filteredPlayers)],
              !.grid = [i \in 1..Len(a.playersState.filteredPlayers) |->
                           a.playersState.filteredPlayers[i].name]]

applyPlayerFilters(a) ==
    IF ~a.playersState.loaded THEN a
    ELSE LET search == toLowerCaseOf(trimOf(a.controls.search))
             team == trimOf(a.controls.team)
             pos == toUpperCaseOf(trimOf(a.controls.pos))
             filtered == SelectSeq(a.playersState.allPlayers,
                                   LAMBDA p : matchesFilters(p, search, team, pos))
         IN  renderPlayerGrid(
               [a EXCEPT !.playersState.filteredPlayers =
                            sortPlayersLocal(filtered, a.controls.sort)])

\* populatePlayerFilters: the options of the team select are the teams of
\* the players, and the select shows its first option again
populatePlayerFilters(a, players) ==
    [a EXCEPT !.teamOptions = {players[i].team : i \in 1..Len(players)} \ {""},
              !.controls.team = ""]

\* loadPlayers up to its await
loadPlayersStart(a) ==
    [a EXCEPT !.subtitle = [kind |-> "loading"],
              !.requests = Append(@, [status |-> "pending"])]

\* loadPlayers after its await, for the response res to request k
loadPlayersEndLoadedAlways(a, k, res) ==
    IF ~res.ok
    THEN [a EXCEPT !.requests[k].status = "failed", !.subtitle = [kind |-> "error"],
                   !.playersState.loaded = TRUE]
    ELSE applyPlayerFilters(populatePlayerFilters(
           [a EXCEPT !.requests[k].status = "done",
                     !.playersState.allPlayers = IF res.hasData THEN res.data ELSE <<>>,
                     !.playersState.snapshot =
                        IF res.hasMeta THEN res.meta
                        ELSE [uniqueTeams |-> 0, guards |-> 0, forwards |-> 0, centers |-> 0],
                     !.playersState.loaded = TRUE],
           IF res.hasData THEN res.data ELSE <<>>))
loadPlayersEnd(a, k, res) ==
    IF ~res.ok
    THEN [a EXCEPT !.requests[k].status = "failed", !.subtitle = [kind |-> "error"]]
    ELSE applyPlayerFilters(populatePlayerFilters(
           [a EXCEPT !.requests[k].status = "done",
                     !.playersState.allPlayers = IF res.hasData THEN res.data ELSE <<>>,
                     !.playersState.snapshot =
                        IF res.hasMeta THEN res.meta
                        ELSE [uniqueTeams |-> 0, guards |-> 0, forwards |-> 0, centers |-> 0],
                     !.playersState.loaded = TRUE],
           IF res.hasData THEN res.data ELSE <<>>))

\* ensurePlayersLoaded
ensurePlayersLoaded(a) == IF a.playersState.loaded THEN a ELSE loadPlayersStart(a)

InitPlayersView ==
    /\ ScriptInit
    /\ app = [view |-> "players",
              playersState |-> [loaded |-> FALSE, allPlayers |-> <<>>,
                                filteredPlayers |-> <<>>,
                                snapshot |-> [uniqueTeams |-> 0, guards |-> 0,
                                              forwards |-> 0, centers |-> 0]],
              controls |-> NoFilters, teamOptions |-> {}, debounce |-> FALSE,
              subtitle |-> [kind |-> "none"], grid |-> <<>>, requests |-> <<>>]

\* the players tab is activated (setupNav)
ActivatePlayers ==
    /\ app.playersState.loaded \/ Len(app.requests) < MaxRequests
    /\ app' = ensurePlayersLoaded(app)
    /\ UNCHANGED scriptVars

\* Enter in the global search with the text q and no result to pick: the
\* players tab is clicked and the text goes to the search of the view
GlobalSearchEnter(q) ==
    /\ q # ""
    /\ app.playersState.loaded \/ Len(app.requests) < MaxRequests
    /\ app' = applyPlayerFilters([ensurePlayersLoaded(app) EXCEPT !.controls.search = q])
    /\ UNCHANGED scriptVars

\* typing in the search of the view starts the debounce timer
TypeSearch(q) ==
    /\ app' = [app EXCEPT !.controls.search = q, !.debounce = TRUE]
    /\ UNCHANGED scriptVars

\* the debounce timer fires
SearchDebounced ==
    /\ app.debounce
    /\ app' = applyPlayerFilters([app EXCEPT !.debounce = FALSE])
    /\ UNCHANGED scriptVars

\* change of the team, position or sort select
ChangeTeam(team) ==
    /\ team \in app.teamOptions \cup {""}
    /\ app' = applyPlayerFilters([app EXCEPT !.controls.team = team])
    /\ UNCHANGED scriptVars
ChangePosition(pos) ==
    /\ app' = applyPlayerFilters([app EXCEPT !.controls.pos = pos])
    /\ UNCHANGED scriptVars
ChangeSort(sortKey) ==
    /\ app' = applyPlayerFilters([app EXCEPT !.controls.sort = sortKey])
    /\ UNCHANGED scriptVars

\* click on the reset or the clear button
ResetFilters ==
    /\ app' = applyPlayerFilters([app EXCEPT !.controls = NoFilters])
    /\ UNCHANGED scriptVars

\* the fetch of request k resolves with a response that is ok
PlayersFetched(k, res) ==
    /\ k \in 1..Len(app.requests)
    /\ app.requests[k].status = "pending"
    /\ app' = loadPlayersEnd(app, k, res)
    /\ UNCHANGED scriptVars

\* the fetch of request k fails: a network error, a response that is not ok
\* or a body that is no JSON
PlayersFetchFailed(k) ==
    /\ k \in 1..Len(app.requests)
    /\ app.requests[k].status = "pending"
    /\ app' = loadPlayersEnd(app, k, PlayersFailure)
    /\ UNCHANGED scriptVars

NextPlayersView ==
    \/ ActivatePlayers
    \/ \E q \in SearchTexts : GlobalSearchEnter(q)
    \/ \E q \in SearchTexts : TypeSearch(q)
    \/ SearchDebounced
    \/ \E team \in {"", "LAL", "BOS"} : ChangeTeam(team)
    \/ \E pos \in PositionValues : ChangePosition(pos)
    \/ \E sortKey \in SortKeys : ChangeSort(sortKey)
    \/ ResetFilters
    \/ \E k \in 1..MaxRequests : \E res \in PlayersResponses : PlayersFetched(k, res)
    \/ \E k \in 1..MaxRequests : PlayersFetchFailed(k)

SpecPlayersView == InitPlayersView /\ [][NextPlayersView]_vars

\* The edges tab.  A row of /api/edges as the table reads it; an absent
\* text field is the empty text, delta is read through `|| 0`.
EdgeRow(name, team, pos, delta) == [name |-> name, team |-> team, pos |-> pos, delta |-> delta]
EdgeStats == {"pts", "reb"}
EdgesResponses ==
    {[ok |-> TRUE, hasData |-> TRUE,
      data |-> <<EdgeRow("Al", "LAL", "G", 1), EdgeRow("Bo", "BOS", "F", 3)>>],
     [ok |-> TRUE, hasData |-> TRUE,
      data |-> <<EdgeRow("Dee", "LAL", "G-F", 2), EdgeRow("Al", "LAL", "G", 2)>>],
     [ok |-> TRUE, hasData |-> TRUE, data |-> <<>>],
     [ok |-> TRUE, hasData |-> FALSE, data |-> <<>>]}
EdgesFailure == [ok |-> FALSE]

\* rows.slice().sort((a, b) => (b.delta || 0) - (a.delta || 0)), stable
RECURSIVE insertEdge(_, _)
insertEdge(sorted, x) ==
    IF Len(sorted) = 0 THEN <<x>>
    ELSE IF Head(sorted).delta - x.delta < 0 THEN <<x>> \o sorted
    ELSE <<Head(sorted)>> \o insertEdge(Tail(sorted), x)

RECURSIVE sortEdges(_)
sortEdges(rows) ==
    IF Len(rows) = 0 THEN <<>>
    ELSE insertEdge(sortEdges(SubSeq(rows, 1, Len(rows) - 1)), rows[Len(rows)])

\* edgesTabState.currentStat || "pts"
currentStatOf(a) ==
    IF a.edgesTabState.currentStat = "" THEN "pts" ELSE a.edgesTabState.currentStat

renderEdgesTable(a) ==
    LET stat == currentStatOf(a)
        raw == IF a.edgesTabState.byStat[stat].has THEN a.edgesTabState.byStat[stat].rows
               ELSE <<>>
        posFilter == toUpperCaseOf(a.controls.pos)
        teamFilter == a.controls.team
        rows == sortEdges(SelectSeq(raw, LAMBDA p :
                    /\ posFilter = "" \/ includesOf(toUpperCaseOf(p.pos), posFilter)
                    /\ teamFilter = "" \/ p.team = teamFilter))
    IN  [a EXCEPT !.tbody = IF Len(rows) = 0 THEN [kind |-> "noMatch"]
                            ELSE [kind |-> "rows", stat |-> stat,
                                  names |-> [i \in 1..Len(rows) |-> rows[i].name]]]

\* the callback a caller of ensureEdgesData chains with .then: the one of
\* ensureEdgesLoaded sets the flag, the one of the stat select only renders
edgesThen(a, stat, caller) ==
    IF caller = "ensureEdgesLoaded"
    THEN renderEdgesTable([a EXCEPT !.edgesLoaded = TRUE, !.loadedStat = stat])
    ELSE renderEdgesTable(a)

\* ensureEdgesData(stat).then(...) up to the await: with an entry for the
\* stat the promise is resolved at once and the callback runs
ensureEdgesDataStart(a, stat, caller) ==
    IF a.edgesTabState.byStat[stat].has THEN edgesThen(a, stat, caller)
    ELSE [a EXCEPT !.tbody = [kind |-> "loading"],
                   !.requests = Append(@, [stat |-> stat, caller |-> caller,
                                           status |-> "pending"])]

\* ensureEdgesData after the await and the callback chained to it, for the
\* response res to request k
ensureEdgesDataEnd(a, k, res) ==
    edgesThen(IF res.ok
              THEN [a EXCEPT !.requests[k].status = "done",
                             !.edgesTabState.byStat[a.requests[k].stat] =
                                [has |-> TRUE,
                                 rows |-> IF res.hasData THEN res.data ELSE <<>>]]
              ELSE [a EXCEPT !.requests[k].status = "failed",
                             !.tbody = [kind |-> "error"]],
              a.requests[k].stat, a.requests[k].caller)

ensureEdgesLoaded(a) ==
    IF a.edgesLoaded THEN renderEdgesTable(a)
    ELSE ensureEdgesDataStart(a, currentStatOf(a), "ensureEdgesLoaded")

\* loadedStat records the stat of the ensureEdgesData call whose callback
\* set edgesLoaded ("" while the flag is false).
InitEdgesView ==
    /\ ScriptInit
    /\ app = [view |-> "edges", edgesLoaded |-> FALSE, loadedStat |-> "",
              edgesTabState |-> [byStat |-> [s \in EdgeStats |-> [has |-> FALSE, rows |-> <<>>]],
                                 currentStat |-> "pts"],
              controls |-> [pos |-> "", team |-> ""],
              tbody |-> [kind |-> "none"], requests |-> <<>>]

\* the edges tab is activated (setupNav)
ActivateEdges ==
    /\ Len(app.requests) < MaxRequests
    /\ app' = ensureEdgesLoaded(app)
    /\ UNCHANGED scriptVars

\* change of the stat select to the option with this value
ChangeEdgesStat(value) ==
    /\ Len(app.requests) < MaxRequests
    /\ app' = ensureEdgesDataStart(
                 [app EXCEPT !.edgesTabState.currentStat = IF value = "" THEN "pts" ELSE value],
                 IF value = "" THEN "pts" ELSE value, "statSelect")
    /\ UNCHANGED scriptVars

\* change of the position or the team select
ChangeEdgesPosition(pos) ==
    /\ app' = renderEdgesTable([app EXCEPT !.controls.pos = pos])
    /\ UNCHANGED scriptVars
ChangeEdgesTeam(team) ==
    /\ app' = renderEdgesTable([app EXCEPT !.controls.team = team])
    /\ UNCHANGED scriptVars

\* the fetch of request k resolves with a response that is ok
EdgesFetched(k, res) ==
    /\ k \in 1..Len(app.requests)
    /\ app.requests[k].status = "pending"
    /\ app' = ensureEdgesDataEnd(app, k, res)
    /\ UNCHANGED scriptVars

\* the fetch of request k fails: a network error, a response that is not ok
\* or a body that is no JSON
EdgesFetchFailed(k) ==
    /\ k \in 1..Len(app.requests)
    /\ app.requests[k].status = "pending"
    /\ app' = ensureEdgesDataEnd(app, k, EdgesFailure)
    /\ UNCHANGED scriptVars

NextEdgesView ==
    \/ ActivateEdges
    \/ \E value \in EdgeStats \cup {""} : ChangeEdgesStat(value)
    \/ \E pos \in PositionValues : ChangeEdgesPosition(pos)
    \/ \E team \in {"", "LAL"} : ChangeEdgesTeam(team)
    \/ \E k \in 1..MaxRequests : \E res \in EdgesResponses : EdgesFetched(k, res)
    \/ \E k \in 1..MaxRequests : EdgesFetchFailed(k)

SpecEdgesView == InitEdgesView /\ [][NextEdgesView]_vars

---------------------------------------------------------------------------
(* THE BUILD SCRIPT (scripts/build_player_stats.mjs) writes the            *)
(* player_stats.json that the dashboard scores.  A 32-bit unsigned hash is *)
(* kept as two 16-bit halves.                                              *)

Half == 2^16

\* key.charCodeAt(i) for i = 0 .. key.length - 1
charCodes(text) ==
    CASE text = "Al" -> <<65, 108>>
      [] text = "Bo" -> <<66, 111>>
      [] text = "Dee" -> <<68, 101, 101>>
      [] text = "Flo" -> <<70, 108, 111>>
      [] text = "Gus" -> <<71, 117, 115>>
      [] text = "Zed" -> <<90, 101, 100>>
      [] text = "LAL" -> <<76, 65, 76>>
      [] text = "BOS" -> <<66, 79, 83>>
      [] text = "|" -> <<124>>

\* hash = (hash * 31 + key.charCodeAt(i)) >>> 0
hashStep(hash, code) ==
    LET lo == hash.lo * 31 + code
        hi == hash.hi * 31 + lo \div Half
    IN  [hi |-> hi % Half, lo |-> lo % Half]

\* the loop over the characters of the key
RECURSIVE hashOf(_)
hashOf(codes) ==
    IF codes = <<>> THEN [hi |-> 0, lo |-> 0]
    ELSE hashStep(hashOf(SubSeq(codes, 1, Len(codes) - 1)), codes[Len(codes)])

\* hash % m
hashMod(hash, m) == ((hash.hi % m) * (Half % m) + hash.lo) % m

\* makePlaceholderStats of a build script that also wrote a points average
makePlaceholderStatsWithPts(playerName, teamAbbr, isBackToBack) ==
    LET hash == hashOf(charCodes(playerName) \o charCodes("|") \o charCodes(teamAbbr))
    IN  [minutes |-> JsNum(22 + hashMod(hash, 15)),
         usage |-> JsNum(17 + hashMod(hash, 14)),
         hitRate |-> [num |-> 40 + hashMod(hash, 33), den |-> 100],
         backToBack |-> isBackToBack]
        @@ [EmptyStats EXCEPT !.pts = JsNum(10 + hashMod(hash, 20)),
                              !.min = JsNum(22 + hashMod(hash, 15))]

\* makePlaceholderStats: the record has the four fields minutes, usage,
\* hitRate (hitBase / 100) and backToBack; every other field reads undefined
makePlaceholderStats(playerName, teamAbbr, isBackToBack) ==
    LET hash == hashOf(charCodes(playerName) \o charCodes("|") \o charCodes(teamAbbr))
    IN  [minutes |-> JsNum(22 + hashMod(hash, 15)),
         usage |-> JsNum(17 + hashMod(hash, 14)),
         hitRate |-> [num |-> 40 + hashMod(hash, 33), den |-> 100],
         backToBack |-> isBackToBack]
        @@ EmptyStats

\* Rosters of the build: one team with up to MaxRoster players.
MaxRoster == 2
BuildNames == {"Al", "Bo", "Dee", "Flo", "Gus", "Zed"}
BuildTeams == {"LAL", "BOS"}
BuildRosters == UNION {[1..n -> BuildNames] : n \in 0..MaxRoster}

InitBuild ==
    /\ variant \in Variants
    /\ playerStats = <<>>
    /\ PageInit
    /\ arg \in [team : BuildTeams, players : BuildRosters, isTeamB2B : BOOLEAN]
    /\ pc = "build"
    /\ out = [fn |-> "none"]

\* buildPlayerStats: playerStats[playerName] = stats for every player of
\* the roster, then written to player_stats.json, which the page loads
BuildPlayerStats ==
    /\ pc = "build"
    /\ playerStats' =
          [n \in {arg.players[i] : i \in 1..Len(arg.players)} |->
              makePlaceholderStats(n, arg.team, arg.isTeamB2B)]
    /\ pc' = "call"
    /\ UNCHANGED <<variant, arg, out, pageVars>>

\* scorePlayer(playerStats[name]) on the page, in the scripts that have it
ScoreBuilt ==
    /\ pc = "call"
    /\ variant \in {"B", "C"}
    /\ \E name \in DOMAIN playerStats :
          out' = [fn |-> "scorePlayer", name |-> name,
                  score |-> ScorePlayer(playerStats[name])]
    /\ pc' = "done"
    /\ UNCHANGED <<variant, playerStats, arg, pageVars>>

\* buildProp(name) on the page
PropBuilt ==
    /\ pc = "call"
    /\ \E name \in BuildNames :
          out' = [fn |-> "buildProp", name |-> name, prop |-> BuildProp(name)]
    /\ pc' = "done"
    /\ UNCHANGED <<variant, playerStats, arg, pageVars>>

NextBuild == BuildPlayerStats \/ ScoreBuilt \/ PropBuilt

SpecBuild == InitBuild /\ [][NextBuild]_vars

---------------------------------------------------------------------------
(* Properties of the scoring calls, checked under SpecScore.               *)

Scored == pc = "done" /\ out.fn = "scorePlayer"
Built == pc = "done" /\ out.fn = "buildProp"

Present(x) == x.t \notin {"undefined", "null"}
PtsZeroOrAbsent(s) == ~Present(s.pts) \/ (s.pts.t = "number" /\ s.pts.v = 0)
NoGamesRecorded(s) == ~Present(s.games) \/ (s.games.t = "number" /\ s.games.v = 0)

\* C1: for every stats record handed to scorePlayer (the empty record, null
\* and records with every field missing included) the confidence returned
\* lies in [0, 1].
C1_ConfidenceInUnitInterval ==
    Scored => FLe(D_0, out.score) /\ FLe(out.score, D_1)

C1_Witness == Scored /\ variant = "B" /\ arg = NullStats

\* The thresholds as the specification words them, from the bottom up.
ClaimTier(c) ==
    IF FLt(c, D_0_55) THEN "RED"
    ELSE IF FLt(c, D_0_75) THEN "YELLOW"
    ELSE "GREEN"

\* The same for a confidence that is a whole number: n >= 0.55 and n >= 0.75
\* both say n >= 1.
ClaimTierOfNumber(n) == IF n >= 1 THEN "GREEN" ELSE "RED"

\* C2: buildProp assigns the tier from the confidence with the thresholds
\* confidence >= 0.75 GREEN, 0.55 <= confidence < 0.75 YELLOW, else RED.
C2_TierThresholds ==
    Built =>
        out.prop.tier =
            IF variant = "A" THEN ClaimTierOfNumber(out.prop.confidence.v)
            ELSE ClaimTier(out.prop.score)

TierRank(tier) == CASE tier = "RED" -> 0 [] tier = "YELLOW" -> 1 [] tier = "GREEN" -> 2

GridSteps == 64
MaxConfidence == 100

\* Confidences to compare a built prop with: the multiples of 1/64 and the
\* doubles next below the two thresholds.
ScoreGrid ==
    {Dbl(k * 2^22, 0) : k \in 0..GridSteps}
        \cup {D_0_55, D_0_75, Dbl(147639500, 214748360), Dbl(201326591, Limb - 8)}

\* C3: the tier is monotonic in the confidence: for c1 <= c2 the tier of c1
\* is never above the tier of c2 in the order RED < YELLOW < GREEN.
C3_TierMonotonic ==
    Built =>
        IF variant = "A"
        THEN \A c \in 0..MaxConfidence :
                LET t == TierRank(tierOfConfidence(JsNum(c)))
                IN  /\ c <= out.prop.confidence.v => t <= TierRank(out.prop.tier)
                    /\ c >= out.prop.confidence.v => t >= TierRank(out.prop.tier)
        ELSE \A c \in ScoreGrid :
                LET t == TierRank(tierOf(c))
                IN  /\ FLe(c, out.prop.score) => t <= TierRank(out.prop.tier)
                    /\ FGe(c, out.prop.score) => t >= TierRank(out.prop.tier)

C3_Witness ==
    /\ Built /\ variant = "B" /\ out.prop.tier = "YELLOW"
    /\ \E c1, c2 \in ScoreGrid :
          /\ FLt(c1, out.prop.score) /\ tierOf(c1) = "RED"
          /\ FLt(out.prop.score, c2) /\ tierOf(c2) = "GREEN"

\* C4: whenever the season points average is 0 or absent, scorePlayer
\* returns exactly 0.45 whatever usage, minutes and defensive rank are, and
\* the tier built from it is RED.
C4_InsufficientDataFloor ==
    /\ Scored /\ PtsZeroOrAbsent(arg) => FEq(out.score, D_0_45)
    /\ Built /\ variant # "A" /\ PtsZeroOrAbsent(out.prop.stats) =>
          FEq(out.prop.score, D_0_45) /\ out.prop.tier = "RED"

C4_Witness ==
    /\ Built /\ variant = "B"
    /\ out.prop.stats.pts = JsNum(0) /\ out.prop.stats.games = JsNum(10)
    /\ out.prop.stats.usage = JsNum(24) /\ out.prop.stats.min = JsNum(30)
    /\ out.prop.stats.def_rank = JsNum(8)

\* The values 0.5 plus adjustments of 0.10 can take: up to three added, and
\* one taken off.
AdditiveValues ==
    LET a1 == FAdd(D_0_5, D_0_1)
        a2 == FAdd(a1, D_0_1)
        a3 == FAdd(a2, D_0_1)
    IN  {D_0_5, a1, a2, a3} \cup {FSub(x, D_0_1) : x \in {D_0_5, a1, a2, a3}}

Perms == {p \in [1..4 -> 1..4] : \A i, j \in 1..4 : p[i] = p[j] => i = j}

\* The four adjustments of a record as the specification states them.
ClaimAdjustments(s) ==
    <<IF s.usage.t = "number" /\ s.usage.v > 22 THEN D_0_1 ELSE D_0,
      IF s.min.t = "number" /\ s.min.v > 28 THEN D_0_1 ELSE D_0,
      IF Present(s.def_rank) /\ s.def_rank.v <= 10 THEN D_0_1 ELSE D_0,
      IF Present(s.def_rank) /\ s.def_rank.v >= 20 THEN FNeg(D_0_1) ELSE D_0>>

\* clamp(0.5 + the adjustments taken in the order p, 0, 1)
ClaimConfidence(s, p) ==
    LET a == ClaimAdjustments(s)
        sum == FAdd(FAdd(FAdd(FAdd(D_0_5, a[p[1]]), a[p[2]]), a[p[3]]), a[p[4]])
    IN  MathMax(D_0, MathMin(D_1, sum))

\* C6: a record that is not short-circuited gets
\* clamp(0.5 + 0.10*[usage > 22] + 0.10*[min > 28]
\*       + 0.10*[def_rank present and <= 10] - 0.10*[def_rank present and >= 20], 0, 1),
\* whatever the order in which the adjustments are applied.
C6_AdditiveAdjustments ==
    Scored /\ ~FEq(out.score, D_0_45) =>
        \A p \in Perms : FEq(out.score, ClaimConfidence(arg, p))

\* 0.8, the double nearest to it
D_0_8 == Dbl(214748364, 214748368)

Example1 ==
    [EmptyStats EXCEPT !.pts = JsNum(25), !.usage = JsNum(24),
                       !.min = JsNum(30), !.def_rank = JsNum(8)]

\* C7: for the record {pts:25, usage:24, min:30, def_rank:8} buildProp yields
\* confidence 0.8 and tier GREEN.
C7_Example1 ==
    Built /\ variant # "A" /\ out.prop.stats = Example1 =>
        FEq(out.prop.score, D_0_8) /\ out.prop.tier = "GREEN"

\* 0.4, 0.6 and 0.7: the doubles nearest to them
D_0_4 == Dbl(107374182, 107374184)
D_0_6 == Dbl(161061273, 161061272)
D_0_7 == Dbl(187904819, 53687088)

ClaimScoreValues == {D_0_4, D_0_45, D_0_5, D_0_6, D_0_7, D_0_8}

\* Every value that scorePlayer returns is one of the six.
C25_ValuesWithinSix == Scored => out.score \in ClaimScoreValues

\* scorePlayer returns the double just below 0.8.
C25_BelowPointEight == Scored /\ out.score = FAdd(FAdd(FAdd(D_0_5, D_0_1), D_0_1), D_0_1)

\* C25: scorePlayer returns one of 0.40, 0.45, 0.50, 0.60, 0.70, 0.80, and
\* a prop is GREEN only for a record with non-zero points, usage > 22,
\* min > 28 and a defensive rank <= 10.
C25_ScoreValueSet ==
    /\ Scored => out.score \in ClaimScoreValues
    /\ Built /\ variant # "A" /\ out.prop.tier = "GREEN" =>
          /\ ~PtsZeroOrAbsent(out.prop.stats)
          /\ out.prop.stats.usage.t = "number" /\ out.prop.stats.usage.v > 22
          /\ out.prop.stats.min.t = "number" /\ out.prop.stats.min.v > 28
          /\ out.prop.stats.def_rank.t = "number" /\ out.prop.stats.def_rank.v <= 10

\* 0.5 plus the usage and minutes bonuses alone
ClaimNoDefense(s) ==
    FAdd(FAdd(D_0_5, ClaimAdjustments(s)[1]), ClaimAdjustments(s)[2])

\* C22: when def_rank is missing or null neither defense adjustment is
\* applied: a record that is not short-circuited gets 0.5 plus only the
\* usage and minutes bonuses.
C22_AbsentRankNoAdjustment ==
    Scored /\ ~Present(arg.def_rank) /\ ~FEq(out.score, D_0_45) =>
        FEq(out.score, ClaimNoDefense(arg))

---------------------------------------------------------------------------
(* Properties of the page, checked under Spec.                             *)

\* The confidence a prop carries (`confidence` in variant A, `score` in the
\* others).
ConfidenceOf(p) == IF variant = "A" THEN p.confidence ELSE p.score

NamesOf(props) == [i \in 1..Len(props) |-> props[i].name]

\* One scored entry per name of the list, in the order of the list.
EntriesFor(props, names) ==
    /\ NamesOf(props) = names
    /\ \A i \in 1..Len(props) : props[i] = BuildProp(names[i])

\* The rosters of a game, away team first; a team without a roster has none.
GameNames(game) == rosterOf(game.away_team) \o rosterOf(game.home_team)

\* After a game selection lastProps holds one scored entry per name of the
\* away roster and then of the home roster, in roster order.
C12_GameSelection ==
    [][\A g \in 1..Len(todaysGames) :
          ShowGameProps(g) => EntriesFor(lastProps', GameNames(todaysGames[g]))]_vars

\* C12: after a game selection lastProps holds one scored entry per name of
\* the away roster followed by the home roster, in roster order; after a team
\* selection it holds the entries of that team's roster in roster order; a
\* team without a roster contributes no entries.
C12_SelectionFillsLastProps ==
    [][/\ \A g \in 1..Len(todaysGames) :
             ShowGameProps(g) => EntriesFor(lastProps', GameNames(todaysGames[g]))
       /\ \A team \in DOMAIN rostersData :
             ShowTeamPlayers(team) => EntriesFor(lastProps', rosterOf(team))]_vars

\* C13: within one selection the scored list is de-duplicated by name: no
\* player name occurs more than once in lastProps, also when the name is on
\* both rosters of a game.
C13_NoDuplicateNames ==
    \A i, j \in 1..Len(lastProps) :
        i # j => lastProps[i].name # lastProps[j].name

\* The dataset in place, and the one an edition's three files make.
Dataset == <<rostersData, scheduleData, playerStats>>
DatasetOf(e) == <<RostersFile(e), ScheduleFile(e), StatsFile(e)>>
NoDataset == <<<<>>, <<>>, <<>>>>

\* A step that fails a fetch, or brings a file while others of the load are
\* outstanding, changes neither the dataset nor lastProps.
C16_PartialKeeps ==
    \A k \in 1..Len(loads) :
        /\ FetchFail(k) => UNCHANGED <<Dataset, lastProps>>
        /\ (FetchOk(k) /\ loads[k].got + 1 < Cardinality(Files)) =>
               UNCHANGED <<Dataset, lastProps>>

\* A step that changes the dataset is the last fetch of a load succeeding,
\* and it puts that load's three files in place.
C16_ReplacedWhole ==
    Dataset' # Dataset =>
        \E k \in 1..Len(loads) :
            /\ loads[k].status = "pending"
            /\ loads[k].got + 1 = Cardinality(Files)
            /\ loads'[k].status = "done"
            /\ Dataset' = DatasetOf(loads[k].edition)

\* C16: loadData replaces rostersData, scheduleData and playerStats only
\* after all three fetches of that load have succeeded, and then all three
\* together; a failing fetch, and a fetch that succeeds while others of its
\* load are outstanding, leave the three variables and lastProps as they
\* were, so the dataset in place is always that of one load, never a merge.
C16_LoadAtomic ==
    /\ [](Dataset = NoDataset \/ \E e \in Editions : Dataset = DatasetOf(e))
    /\ [][C16_PartialKeeps /\ C16_ReplacedWhole]_vars

\* A load failed after an earlier load of the other edition had succeeded,
\* and props built from the earlier dataset are on the page.
C16_Witness ==
    /\ Len(loads) >= 2
    /\ loads[1].status = "done"
    /\ loads[2].status = "failed"
    /\ loads[1].edition # loads[2].edition
    /\ Dataset = DatasetOf(loads[1].edition)
    /\ lastProps # <<>>

\* C17: when loadData calls overlap, the result of the older load is
\* discarded if it completes after the newer one: once all loads have
\* finished with success, the dataset is the one fetched by the load that
\* was started last.
C17_NewestLoadWins ==
    (Len(loads) >= 2 /\ \A k \in 1..Len(loads) : loads[k].status = "done") =>
        Dataset = DatasetOf(loads[Len(loads)].edition)

\* A handler that builds props takes this step.
BuildsProps ==
    \/ \E g \in 1..Len(todaysGames) : ShowGameProps(g)
    \/ variant = "A" /\ \E team \in DOMAIN rostersData : ShowTeamPlayers(team)

\* C18: whenever a game click or a team click invokes buildProp, the three
\* variables hold the files of one load that has succeeded, never a mix of
\* two loads nor files of a load with fetches outstanding, and the props are
\* built from that load's rosters and stats.
C18_ScoringOnWholeDataset ==
    [][BuildsProps =>
          \E k \in 1..Len(loads) :
              /\ loads[k].status = "done"
              /\ Dataset = DatasetOf(loads[k].edition)
              /\ \A i \in 1..Len(lastProps') :
                    LET n == lastProps'[i].name
                        file == StatsFile(loads[k].edition)
                    IN  /\ \E team \in DOMAIN RostersFile(loads[k].edition) :
                              \E j \in 1..Len(RostersFile(loads[k].edition)[team]) :
                                  RostersFile(loads[k].edition)[team][j] = n
                        /\ lastProps'[i].stats =
                              IF n \in DOMAIN file THEN file[n] ELSE EmptyStats]_vars

\* Props were built from the dataset of a finished load while a load of the
\* other edition has two of its three files.
C18_Witness ==
    /\ lastProps # <<>>
    /\ Len(loads) = 2
    /\ \E k \in 1..2 :
          /\ loads[k].status = "done"
          /\ loads[3 - k].status = "pending"
          /\ loads[3 - k].got = 2
          /\ loads[3 - k].edition # loads[k].edition
          /\ Dataset = DatasetOf(loads[k].edition)
          /\ \A i \in 1..Len(lastProps) :
                lastProps[i].name \in DOMAIN StatsFile(loads[k].edition) =>
                    lastProps[i].stats = StatsFile(loads[k].edition)[lastProps[i].name]

\* A step that selects a team or a game, or the step of a load.
SelectionOrLoad ==
    \/ \E team \in {"AAA", "BBB"} : ShowTeamPlayers(team)
    \/ \E g \in 1..2 : ShowGameProps(g)
    \/ \E k \in 1..MaxLoads : FetchOk(k)

\* A filter or view click, which renders again.
RenderClick ==
    \/ \E f \in Filters : ClickFilter(f)
    \/ \E v \in Views : ClickView(v)

\* C23: renderProps and filter changes leave lastProps as it is (same
\* entries, same order, same confidence and tier), the panel of props always
\* is the render of lastProps under the current filter, so that going to a
\* tier and back to "all" shows the same full list, and lastProps changes
\* only on a team or game selection or a load.
C23_LastPropsNotMutated ==
    /\ [](panel.kind = "props" =>
            panel = renderProps(lastProps, currentFilter, currentView))
    /\ [][/\ RenderClick => lastProps' = lastProps
          /\ lastProps' # lastProps => SelectionOrLoad]_vars

\* A tier filter is on, hiding part of a list that is not in sorted order.
C23_Witness ==
    /\ currentFilter # "all"
    /\ Len(lastProps) >= 2
    /\ sortProps(lastProps) # lastProps
    /\ panel.kind = "props"
    /\ Len(panel.cards) \in 1..(Len(lastProps) - 1)

\* The entry was built from the dataset in place: its name is on a roster
\* of rostersData and its fields are the ones buildProp gives for
\* playerStats.
ClaimBuiltFromCurrent(p) ==
    /\ \E t \in DOMAIN rostersData : \E i \in 1..Len(rostersData[t]) : rostersData[t][i] = p.name
    /\ p = BuildProp(p.name)

ClaimLoaded == \E k \in 1..Len(loads) : loads[k].status = "done"

\* C30: after a successful loadData every entry that renderProps can display
\* was built from the current playerStats: lastProps is empty or rebuilt, so
\* that a filter click after a reload shows no name, stat or tier of the
\* dataset loaded before.
C30_PropsFromCurrentData ==
    ClaimLoaded => \A i \in 1..Len(lastProps) : ClaimBuiltFromCurrent(lastProps[i])

\* The same in the script whose loadData empties lastProps and renders.
C30_ResetOnLoad ==
    (ClaimLoaded /\ variant = "A") =>
        \A i \in 1..Len(lastProps) : ClaimBuiltFromCurrent(lastProps[i])

\* A second dataset was loaded in that script after props had been shown.
C30_ReloadedAfterProps ==
    /\ variant = "A"
    /\ Len(loads) = 2 /\ loads[1].status = "done" /\ loads[2].status = "done"
    /\ loads[1].edition # loads[2].edition
    /\ \E n \in Names : built[n].seen
    /\ lastProps # <<>>


---------------------------------------------------------------------------
(* Properties of one render, checked under SpecRender.                     *)

RenderedList == pc = "done" /\ out.fn = "renderProps"

\* The props of the cards shown, top to bottom.
Shown == [i \in 1..Len(panel.cards) |-> panel.cards[i].prop]

ClaimTierOfFilter(f) ==
    CASE f = "green" -> "GREEN" [] f = "yellow" -> "YELLOW" [] f = "red" -> "RED"

MatchesFilter(p) == currentFilter = "all" \/ p.tier = ClaimTierOfFilter(currentFilter)

CountOf(seq, e) == Cardinality({i \in 1..Len(seq) : seq[i] = e})

\* p's confidence is at most q's.
ConfidenceLe(p, q) ==
    IF variant = "A" THEN p.confidence.v <= q.confidence.v
    ELSE FLe(p.score, q.score)

\* C14: for every filter value and every lastProps list the rendered
\* sequence holds exactly the entries of lastProps whose tier matches the
\* filter (all of them under "all"), each as often as lastProps holds it, in
\* the order of non-increasing confidence.
C14_FilteredAndSorted ==
    RenderedList =>
        /\ panel.kind = "props"
        /\ \A i \in 1..Len(lastProps) :
              CountOf(Shown, lastProps[i]) =
                  IF MatchesFilter(lastProps[i]) THEN CountOf(lastProps, lastProps[i])
                  ELSE 0
        /\ \A i \in 1..Len(Shown) : CountOf(lastProps, Shown[i]) > 0
        /\ \A i \in 1..Len(Shown) - 1 : ConfidenceLe(Shown[i + 1], Shown[i])

\* A list of three props of more than one tier was rendered under a tier
\* filter that keeps some and drops some, the kept ones not in sorted order
\* in lastProps.
C14_Witness ==
    /\ RenderedList
    /\ currentFilter # "all"
    /\ Len(lastProps) = 3
    /\ Len(Shown) = 2
    /\ Shown # SelectSeq(lastProps, MatchesFilter)

SameConfidence(p, q) == ConfidenceLe(p, q) /\ ConfidenceLe(q, p)

\* The entries of seq that pass the filter and tie with p, in their order.
TiedWith(seq, p) ==
    SelectSeq(seq, LAMBDA q : MatchesFilter(q) /\ SameConfidence(q, p))

\* C15: sorting is stable: under every filter value the rendered entries of
\* equal confidence stand in the relative order they have in lastProps.
C15_SortStable ==
    RenderedList =>
        \A i \in 1..Len(Shown) :
            TiedWith(Shown, Shown[i]) = TiedWith(lastProps, Shown[i])

\* Two different entries of equal confidence were rendered behind an entry
\* of higher confidence that came after them in lastProps.
C15_Witness ==
    /\ RenderedList
    /\ Len(Shown) = 3
    /\ Shown[2] # Shown[3]
    /\ SameConfidence(Shown[2], Shown[3])
    /\ ~SameConfidence(Shown[1], Shown[2])
    /\ lastProps[3] = Shown[1]

---------------------------------------------------------------------------
(* Properties of /api/trending, checked under SpecTrending.                *)

TrendingAnswered == pc = "done" /\ out.fn = "trending"

\* The limit of the claim: 50 without the parameter, a whole number clamped
\* into 1..200 with it.
ClaimWholeNumbers ==
    {<<"0", 0>>, <<"1", 1>>, <<"2", 2>>, <<"200", 200>>, <<"201", 201>>,
     <<"-1", 0 - 1>>}
ClaimLimitDefined(req) ==
    req.limit = JsNull \/ \E w \in ClaimWholeNumbers : req.limit = JsStr(w[1])
ClaimLimit(req) ==
    IF req.limit = JsNull THEN 50
    ELSE LET n == (CHOOSE w \in ClaimWholeNumbers : req.limit = JsStr(w[1]))[2]
         IN  IF n < 1 THEN 1 ELSE IF n > 200 THEN 200 ELSE n

\* The stat of the claim: pts without the parameter.
ClaimStatDefined(req) ==
    req.stat \in {JsNull, JsStr("pts"), JsStr("reb"), JsStr("ast"), JsStr("usage")}
ClaimStat(req) == IF req.stat = JsNull THEN "pts" ELSE req.stat.s

\* A field of the file holds a number (as a number or as its text).
ClaimHasNumber(x) == x.t = "number" \/ x = JsStr("12")
ClaimNumber(x) == IF x.t = "number" THEN x.v ELSE 12

\* The score of the claim: last5_<stat> when present, otherwise the season
\* <stat>; usage for usage; none when neither is there.
ClaimSeasonField(v, stat) ==
    CASE stat = "pts" -> v.pts [] stat = "reb" -> v.reb [] stat = "ast" -> v.ast
      [] stat = "usage" -> v.usage
ClaimLast5Field(v, stat) ==
    CASE stat = "pts" -> v.last5_pts [] stat = "reb" -> v.last5_reb
      [] stat = "ast" -> v.last5_ast [] stat = "usage" -> JsUndefined
ClaimHasScore(v, stat) ==
    ClaimHasNumber(ClaimLast5Field(v, stat)) \/ ClaimHasNumber(ClaimSeasonField(v, stat))
ClaimScore(v, stat) ==
    IF ClaimHasNumber(ClaimLast5Field(v, stat))
    THEN ClaimNumber(ClaimLast5Field(v, stat))
    ELSE ClaimNumber(ClaimSeasonField(v, stat))

\* The roster entry of a player (by id, else by name), the team and the
\* position the filters look at.
ClaimRoster(entry, rosters) ==
    LET id == IF Present(entry.v.player_id) THEN StringOf(entry.v.player_id)
              ELSE entry.name
        byId == {i \in 1..Len(rosters) : id \in rosterKeys(rosters[i])}
        byName == {i \in 1..Len(rosters) : entry.name \in rosterKeys(rosters[i])}
    IN  IF byId # {} THEN byId ELSE byName
ClaimTeam(entry, rosters) ==
    IF ClaimRoster(entry, rosters) # {}
    THEN rosterValue(rosters[CHOOSE i \in ClaimRoster(entry, rosters) : TRUE]).team
    ELSE IF entry.v.team.t = "string" THEN toUpperCaseOf(entry.v.team.s) ELSE ""
ClaimPosition(entry, rosters) ==
    IF ClaimRoster(entry, rosters) # {}
    THEN toUpperCaseOf(rosterValue(rosters[CHOOSE i \in ClaimRoster(entry, rosters) : TRUE]).pos.s)
    ELSE ""
ClaimTeamFilter(req) ==
    CASE req.team = JsNull -> "" [] req.team = JsStr(" lal ") -> "LAL"
      [] req.team = JsStr("BOS") -> "BOS"
ClaimPositionFilter(req) == IF req.position = JsNull THEN "" ELSE "G"

\* The players of the file that pass the filters and have a score.
ClaimEligible(req, files) ==
    LET entries == files.stats.entries
        rosters == IF files.rosters.ok /\ files.rosters.isArray
                   THEN files.rosters.list ELSE <<>>
    IN  {i \in 1..Len(entries) :
            /\ entries[i].v.obj
            /\ ClaimHasScore(entries[i].v, ClaimStat(req))
            /\ ClaimTeamFilter(req) \in {"", ClaimTeam(entries[i], rosters)}
            /\ \/ ClaimPositionFilter(req) = ""
               \/ ClaimPosition(entries[i], rosters) \in {"G", "G-F"}}

\* C19: /api/trending returns at most `limit` players (50 without the
\* parameter, else the parameter clamped into 1..200): the highest-scoring
\* players that pass the team and position filters, in non-increasing score
\* order, the score being last5_<stat> when present and the season <stat>
\* otherwise (usage for stat=usage); players with no score are left out.
C19_TrendingTopLimit ==
    (/\ TrendingAnswered
     /\ arg.req.method = "GET"
     /\ arg.files.stats.ok
     /\ ClaimLimitDefined(arg.req)
     /\ ClaimStatDefined(arg.req)) =>
        LET entries == arg.files.stats.entries
            stat == ClaimStat(arg.req)
            eligible == ClaimEligible(arg.req, arg.files)
            data == out.res.data
            k == IF ClaimLimit(arg.req) < Cardinality(eligible)
                 THEN ClaimLimit(arg.req) ELSE Cardinality(eligible)
        IN  /\ out.res.status = 200
            /\ out.res.meta.limit = ClaimLimit(arg.req)
            /\ Len(data) = k
            /\ \A r \in 1..Len(data) :
                  \E i \in eligible :
                      /\ entries[i].name = data[r].name
                      /\ data[r].score = JsNum(ClaimScore(entries[i].v, stat))
            /\ \A r, q \in 1..Len(data) : r # q => data[r].name # data[q].name
            /\ \A r \in 1..Len(data) - 1 : data[r].score.v >= data[r + 1].score.v
            /\ \A i \in eligible :
                  (\A r \in 1..Len(data) : data[r].name # entries[i].name) =>
                      \A r \in 1..Len(data) :
                          ClaimScore(entries[i].v, stat) <= data[r].score.v

\* Three players have a score, one through the fallback to the season
\* average, and a limit of 2 cut the weakest off.
C19_Witness ==
    /\ TrendingAnswered
    /\ arg.req.limit = JsStr("2")
    /\ arg.req.stat \in {JsNull, JsStr("pts"), JsStr("reb")}
    /\ Cardinality(ClaimEligible(arg.req, arg.files)) = 3
    /\ Len(out.res.data) = 2
    /\ \E i \in ClaimEligible(arg.req, arg.files) :
          ~ClaimHasNumber(ClaimLast5Field(arg.files.stats.entries[i].v, ClaimStat(arg.req)))
    /\ out.res.data[1].name # arg.files.stats.entries[1].name

---------------------------------------------------------------------------
(* Claims about /api/games, checked under SpecGames.                       *)

GamesAnswered == pc = "done" /\ out.fn = "games"

\* The date of a game as the claims read it: the calendar date at the head
\* of the first common field that holds one, "" when no field holds one.
ClaimGameDate(g) ==
    LET hits == {i \in 1..Len(candidates) :
                    g[candidates[i]].t = "string" /\ startsWithDate(g[candidates[i]].s)}
    IN  IF hits = {} THEN ""
        ELSE slice10(g[candidates[CHOOSE h \in hits : \A j \in hits : h <= j]].s)

\* A request ?date=D with no team filter, answered from a schedule.json that
\* holds a list of games.
ClaimDateRequest ==
    /\ GamesAnswered
    /\ arg.req.method = "GET"
    /\ arg.req.date \in {JsStr("2025-12-05"), JsStr("2025-12-06")}
    /\ arg.req.team = JsNull
    /\ arg.file.ok /\ arg.file.kind \in {"array", "games"}

\* Some game of the schedule has a date in one of the common fields.
ClaimSomeDate ==
    \E i \in 1..Len(arg.file.list) : ClaimGameDate(arg.file.list[i]) # ""

\* C20: /api/games?date=D returns exactly the games of schedule.json whose
\* date, read from any of the common fields, is D, also when different
\* games carry their date in different fields.  (A schedule in which no
\* game has a date is left out: it is returned whole.)
C20_GamesOnDate ==
    ClaimDateRequest /\ ClaimSomeDate =>
        /\ out.res.status = 200
        /\ out.res.data = SelectSeq(arg.file.list,
                                    LAMBDA g : ClaimGameDate(g) = arg.req.date.s)

\* A GET request answered from a schedule.json that holds a list of games.
ClaimGamesListed ==
    /\ GamesAnswered
    /\ arg.req.method = "GET"
    /\ arg.file.ok /\ arg.file.kind \in {"array", "games"}

\* The team the request asks for, "" when it asks for none.
ClaimGamesTeam ==
    IF arg.req.team = JsNull THEN "" ELSE toUpperCaseOf(trimOf(arg.req.team.s))

\* The schedule restricted by the team filter alone.
ClaimTeamOnly ==
    IF ClaimGamesTeam = "" THEN arg.file.list
    ELSE SelectSeq(arg.file.list, LAMBDA g : playsFor(g, ClaimGamesTeam))

\* C21: without a detectable date the full schedule (team filter apart) is
\* returned and the response carries meta.dateFiltered = false; with a
\* detected date field it carries meta.dateFiltered = true.
C21_MetaDateFiltered ==
    ClaimGamesListed =>
        /\ out.res.status = 200
        /\ "dateFiltered" \in DOMAIN out.res.meta
        /\ ~ClaimSomeDate => out.res.data = ClaimTeamOnly
        /\ out.res.meta.dateFiltered = ClaimSomeDate

\* The same behaviour with the mark read from meta.date.filtered, where
\* buildMeta puts it.
C21_DateFilterMarked ==
    ClaimGamesListed =>
        /\ out.res.status = 200
        /\ ~ClaimSomeDate =>
              /\ out.res.data = ClaimTeamOnly
              /\ out.res.meta.date.filtered = FALSE
              /\ out.res.meta.date.usedField = JsNull
        /\ ClaimSomeDate => out.res.meta.date.filtered = TRUE

\* A schedule of two games without a date, asked for a date and a team: the
\* one game of that team is returned, marked as not filtered by date.
C21_Witness ==
    /\ ClaimGamesListed
    /\ ~ClaimSomeDate
    /\ Len(arg.file.list) = 2
    /\ arg.req.date = JsStr("2025-12-06")
    /\ arg.req.team = JsStr("BOS")
    /\ Len(out.res.data) = 1
    /\ out.res.meta.date.filtered = FALSE

\* The abbreviation of a team value as the claims read it: the text itself
\* or, for a nested object, its abbreviation (or abbr), in upper case.
ClaimTeamAbbr(x) ==
    IF x.t = "string" THEN toUpperCaseOf(x.s)
    ELSE IF x.t = "object"
    THEN IF x.abbreviation.t = "string" THEN toUpperCaseOf(x.abbreviation.s)
         ELSE IF x.abbr.t = "string" THEN toUpperCaseOf(x.abbr.s) ELSE ""
    ELSE ""

\* The game is a home or an away game of team X.
ClaimPlaysFor(g, X) ==
    \/ ClaimTeamAbbr(firstTruthy(g.home_team, g.home, g.home_abbr)) = X
    \/ ClaimTeamAbbr(firstTruthy(g.away_team, g.away, g.away_abbr)) = X

\* The answer to the same request without its team parameter.
ClaimWithoutTeam ==
    onRequestGames([arg.req EXCEPT !.team = JsNull], arg.file, arg.today).data

\* C24: the team filter of /api/games returns the games of team X, read
\* case-insensitively, whether the game names the team as a flat text or as
\* a nested object with an abbreviation.
C24_NestedTeamObjects ==
    ClaimGamesListed /\ ClaimGamesTeam # "" =>
        out.res.data = SelectSeq(ClaimWithoutTeam,
                                 LAMBDA g : ClaimPlaysFor(g, ClaimGamesTeam))

\* The same for games that name both teams as flat texts.
C24_FlatTeams ==
    ClaimGamesListed /\ ClaimGamesTeam # "" =>
        \A i \in 1..Len(ClaimWithoutTeam) :
            LET g == ClaimWithoutTeam[i]
            IN  /\ firstTruthy(g.home_team, g.home, g.home_abbr).t # "object"
                /\ firstTruthy(g.away_team, g.away, g.away_abbr).t # "object"
                => ((\E k \in 1..Len(out.res.data) : out.res.data[k] = g)
                        <=> ClaimPlaysFor(g, ClaimGamesTeam))

---------------------------------------------------------------------------
(* Properties of the build script's records, checked under SpecBuild.      *)

\* C26: for every stats record the build script writes (minutes, usage,
\* hitRate, backToBack, no pts) scorePlayer returns 0.45 and buildProp
\* assigns RED, whatever the generated usage and minutes are.
C26_PlaceholderAlwaysRed ==
    /\ pc = "done" /\ out.fn = "scorePlayer" => FEq(out.score, D_0_45)
    /\ pc = "done" /\ out.fn = "buildProp" /\ out.name \in DOMAIN playerStats =>
          /\ out.prop.tier = "RED"
          /\ variant # "A" => FEq(out.prop.score, D_0_45)

\* A generated record with usage above 22 and minutes above 28 was scored.
C26_Witness ==
    /\ pc = "done" /\ out.fn = "buildProp" /\ out.name \in DOMAIN playerStats
    /\ variant = "B"
    /\ out.prop.stats.usage.v > 22 /\ out.prop.stats.minutes.v > 28
    /\ out.prop.stats = makePlaceholderStats("Dee", "LAL", TRUE)
    /\ out.prop.stats.minutes = JsNum(34) /\ out.prop.stats.usage = JsNum(26)
    /\ out.prop.stats.hitRate.num = 64
    /\ out.prop.tier = "RED"

---------------------------------------------------------------------------
(* Properties of the games view, checked under SpecGamesView.              *)

\* Every request that was issued has been answered, none of them failed,
\* and a toggle has been clicked.
ClaimGamesSettled ==
    /\ app.requests # <<>>
    /\ app.active # "none"
    /\ \A k \in 1..Len(app.requests) : app.requests[k].status = "done"

\* C27: once all issued /api/games requests have completed, the games list
\* shows the games of the range whose toggle is active (the last one
\* clicked), whatever the order in which the fetches completed.
C27_ListShowsActiveRange ==
    ClaimGamesSettled =>
        /\ app.list.kind \in {"games", "none"}
        /\ app.list.dateStr = buildDate(app.active).dateStr

---------------------------------------------------------------------------
(* Properties of the players view, checked under SpecPlayersView.          *)

PlayersFetchIssued == Len(app'.requests) = Len(app.requests) + 1
PlayersFetchFails == \E k \in 1..MaxRequests : PlayersFetchFailed(k)
PlayersFetchSucceeds ==
    \E k \in 1..MaxRequests : \E res \in PlayersResponses : PlayersFetched(k, res)

\* C28: playersState.loaded becomes true only in the step that handles a
\* successful /api/players response and never goes back to false; once it
\* is true no step issues another fetch; a failed load changes none of
\* loaded, allPlayers and filteredPlayers, so that loaded stays false and
\* the next activation of the tab fetches again.
C28_LoadedOnlyAfterSuccess ==
    [][/\ (~app.playersState.loaded /\ app'.playersState.loaded) => PlayersFetchSucceeds
       /\ app.playersState.loaded => app'.playersState.loaded
       /\ app.playersState.loaded => ~PlayersFetchIssued
       /\ PlayersFetchFails =>
             /\ app'.playersState.loaded = app.playersState.loaded
             /\ app'.playersState.allPlayers = app.playersState.allPlayers
             /\ app'.playersState.filteredPlayers = app.playersState.filteredPlayers
       /\ (~app.playersState.loaded /\ ActivatePlayers) =>
             /\ PlayersFetchIssued
             /\ app'.requests[Len(app'.requests)].status = "pending"]_vars

\* A first load failed, the tab was activated again and the second load
\* filled the view.
C28_Witness ==
    /\ app.view = "players"
    /\ Len(app.requests) = 2
    /\ app.requests[1].status = "failed" /\ app.requests[2].status = "done"
    /\ app.playersState.loaded
    /\ Len(app.playersState.allPlayers) = 3
    /\ Len(app.playersState.filteredPlayers) = 2
    /\ app.controls.team = "LAL"

---------------------------------------------------------------------------
(* Properties of the edges tab, checked under SpecEdgesView.               *)

\* C29: in every reachable state, edgesLoaded = true implies that
\* edgesTabState.byStat holds an entry for the stat whose load set the flag
\* (so a failed /api/edges fetch leaves the flag false).
C29_LoadedFlagHasEntry ==
    app.edgesLoaded => app.edgesTabState.byStat[app.loadedStat].has

\* The same for the loads that did not fail: where no request has failed,
\* the flag implies the entry.
C29_LoadedAfterSuccess ==
    (app.edgesLoaded /\ \A k \in 1..Len(app.requests) : app.requests[k].status # "failed")
        => app.edgesTabState.byStat[app.loadedStat].has

---------------------------------------------------------------------------
(* Properties of the trend bars, checked under SpecTrend.                  *)

Rendered == pc = "done" /\ out.fn = "renderCard" /\ variant \in {"A", "B"}

SeasonOf(s, stat) ==
    CASE stat = "pts" -> s.pts [] stat = "reb" -> s.reb [] stat = "ast" -> s.ast
Last5Of(s, stat) ==
    CASE stat = "pts" -> s.l5_pts [] stat = "reb" -> s.l5_reb [] stat = "ast" -> s.l5_ast
BarOf(trend, stat) ==
    CASE stat = "pts" -> trend.pts [] stat = "reb" -> trend.reb [] stat = "ast" -> trend.ast

\* seasonValue and recentValue of the specification: a missing season
\* average is 0, a missing last-5 average is the season average.
SeasonValue(s, stat) == IF Present(SeasonOf(s, stat)) THEN SeasonOf(s, stat).v ELSE 0
RecentValue(s, stat) ==
    IF Present(Last5Of(s, stat)) THEN Last5Of(s, stat).v ELSE SeasonValue(s, stat)

ClaimDirection(s, stat) ==
    IF RecentValue(s, stat) > SeasonValue(s, stat) THEN "UP"
    ELSE IF RecentValue(s, stat) < SeasonValue(s, stat) THEN "DOWN"
    ELSE "FLAT"

\* C9: for each of pts, reb and ast the arrow shown is UP iff the recent value
\* is above the season value, DOWN iff it is below, FLAT iff they are equal,
\* whatever trend hint the record carries.
C9_ArrowFromValues ==
    Rendered =>
        \A stat \in Stats3 :
            BarOf(out.trend, stat).arrow = ClaimDirection(out.prop.stats, stat)

\* The recent value of a card is the season average where the rolling field
\* is absent (checked for the script that shows a recent value).
C11_FallbackValue ==
    Rendered /\ variant = "A" =>
        \A stat \in Stats3 :
            ~Present(Last5Of(out.prop.stats, stat)) =>
                BarOf(out.trend, stat).last5 = JsNum(SeasonValue(out.prop.stats, stat))

\* C11: for each of pts, reb and ast, when the rolling last-5 field is absent
\* the recent value displayed is that stat's season average (0 only when the
\* season average is 0 or absent), and the card then shows a FLAT arrow; with
\* season pts 20 the fill is 0.5.
C11_RecentFallsBackToSeason ==
    Rendered /\ variant = "A" =>
        \A stat \in Stats3 :
            LET s == out.prop.stats
                bar == BarOf(out.trend, stat)
            IN  ~Present(Last5Of(s, stat)) =>
                    /\ bar.last5 = JsNum(SeasonValue(s, stat))
                    /\ bar.arrow = "FLAT"
                    /\ (stat = "pts" /\ s.pts = JsNum(20) =>
                            ~bar.width.nan /\ bar.width.num * 2 = 100 * bar.width.den)

ClaimCeiling(stat) == CASE stat = "pts" -> 40 [] stat = "reb" -> 15 [] stat = "ast" -> 12

\* C10: the bar fill of each stat is clamp(recentValue / ceiling, 0, 1) with
\* the ceilings pts 40, reb 15, ast 12: it lies in [0, 1] and comes from the
\* recent value.
C10_FillFromRecent ==
    Rendered =>
        \A stat \in Stats3 :
            LET w == BarOf(out.trend, stat).width
                r == RecentValue(out.prop.stats, stat)
                c == ClaimCeiling(stat)
            IN  /\ ~w.nan
                /\ 0 <= w.num /\ w.num <= 100 * w.den
                /\ IF r >= c THEN w.num = 100 * w.den
                   ELSE w.num * c = r * 100 * w.den

============================================================================
